---- MODULE Spec2Model ----
(***************************************************************************)
(* A model of the chibicc snapshots of this repository.                    *)
(*                                                                         *)
(*  - Spec     : the recursive-descent parser of src/parse.c, run over a   *)
(*               bounded set of token lists, one compound_stmt iteration   *)
(*               per step.                                                 *)
(*  - SpecCalc : the three calculator snapshots (src/main.c and the two    *)
(*               programs of src/unnamed/part_000), from the argument      *)
(*               string to the assembly written.                           *)
(*  - SpecExpr : the same parser over expression statements: operator      *)
(*               chains, operators with a missing operand, comparisons.    *)
(*  - SpecTwice: parse() called on two token lists in one process.         *)
(*  - SpecPrefix: the same parser over cut-off and damaged programs, with  *)
(*               fairness: the process keeps running until it returns.     *)
(*  - SpecGen  : gen_expr of the calculator snapshots over a bounded set   *)
(*               of trees, and the emitted code run on an abstract machine.*)
(*                                                                         *)
(* Pointers are modelled by indices: a Token* is a position in toks, a     *)
(* Type* an index in the heap of types, an Obj* the allocation number of   *)
(* the variable.  A Node* is the node itself (the tree is owned), the null *)
(* Node* is NilNode.                                                       *)
(***************************************************************************)
EXTENDS Integers, Sequences, FiniteSets, TLC

VARIABLES
  toks,      \* the token list: handed to parse(), or built by tokenize()
  tok,       \* the cursor `tok` of parse()/compound_stmt(), or of main()
  locals,    \* parse.c:21  Obj *locals, head (most recent) first
  types,     \* the heap of Type objects; types[ty_int] is the int singleton
  body,      \* parse.c:189 the statement list head.next of the top-level block
  prog,      \* parse.c:428 the Function parse() returns (NilNode before)
  pc,        \* where the process is: "parse", "compound_stmt", "done", "error";
             \* a calculator: "tokenize", "main", "loop", "parsed", "gen", ...
  err,       \* the diagnostic of error_tok()/error_at(), when pc = "error"
  calls,     \* history: the new_add/new_sub calls made so far, with operands
  argsLate,  \* build choice: a call's plain arguments are read after its call arguments
  pending,   \* the token lists this process calls parse() on after the present one
  snapshot,  \* which program runs: "parse.c", or one of the calculator snapshots
  mem,       \* the bytes at current_input: the argument and its terminating NUL
  p,         \* tokenize(): the read position in mem
  root,      \* main(): the node expr() returned
  out,       \* the lines written to stdout
  depth,     \* static int depth: the pushes not yet popped
  work,      \* gen_expr(): what is left to do, innermost call first
  cpu        \* the abstract machine the emitted code is run on

parseVars == <<locals, types, body, prog, calls, argsLate, pending>>
calcVars  == <<snapshot, mem, p, root, out, depth, work, cpu>>
vars == <<toks, tok, pc, err, locals, types, body, prog, calls, argsLate, pending,
          snapshot, mem, p, root, out, depth, work, cpu>>

--------------------------------------------------------------------------
(* Bounds of the model *)

\* the number of statements/declarations of the top-level block
MaxStmts == 2

--------------------------------------------------------------------------
(* Tokens: src/unnamed/part_001:17-33 *)

NULL == 0

Punct(s)   == [kind |-> "TK_PUNCT",   text |-> s, val |-> 0]
Keyword(s) == [kind |-> "TK_KEYWORD", text |-> s, val |-> 0]
Ident(s)   == [kind |-> "TK_IDENT",   text |-> s, val |-> 0]
Num(s, v)  == [kind |-> "TK_NUM",     text |-> s, val |-> v]
Eof        == [kind |-> "TK_EOF",     text |-> "", val |-> 0]

\* tok->next: the end marker is the last token, its next is NULL
next(t) == IF toks[t].kind = "TK_EOF" THEN NULL ELSE t + 1

\* equal(tok, op): memcmp(tok->loc, op, tok->len) == 0 && op[tok->len] == 0,
\* which holds exactly when the token's bytes are op's (no token that reaches
\* a parser holds a NUL)
equal(t, op) == toks[t].text = op

--------------------------------------------------------------------------
(* Types: src/unnamed/part_001:117-135 *)

ty_int == 1

TyInt == [kind |-> "TY_INT", base |-> NULL, name |-> NULL]

is_integer(ty) == ty.kind = "TY_INT"

\* pointer_to(base): a fresh Type on the heap
pointer_to(base, heap) ==
  [ty   |-> Len(heap) + 1,
   heap |-> Append(heap, [kind |-> "TY_PTR", base |-> base, name |-> NULL])]

--------------------------------------------------------------------------
(* Nodes: src/unnamed/part_001:89-110, src/parse.c:44-88 *)

NilNode == [kind |-> "NULL"]

new_node(kind, t) ==
  [kind |-> kind, tok |-> t, ty |-> NULL, lhs |-> NilNode, rhs |-> NilNode,
   cond |-> NilNode, then |-> NilNode, els |-> NilNode, init |-> NilNode,
   inc |-> NilNode, body |-> <<>>, funcname |-> "", var |-> NULL, val |-> 0]

new_var_node(var, t) == [new_node("ND_VAR", t) EXCEPT !.var = var]

new_binary(kind, lhs, rhs, t) == [new_node(kind, t) EXCEPT !.lhs = lhs, !.rhs = rhs]

new_unary(kind, e, t) == [new_node(kind, t) EXCEPT !.lhs = e]

new_num(val, t) == [new_node("ND_NUM", t) EXCEPT !.val = val]

--------------------------------------------------------------------------
(* The parser's context: the global locals, the heap, the call history *)

Ctx(l, ty, c) == [locals |-> l, types |-> ty, calls |-> c]

\* the result of a grammar rule: a node and the rest, or the fatal error
Ok(node, rest, ctx) == [ok |-> TRUE, node |-> node, rest |-> rest, ctx |-> ctx]

Err(msg, arg, loc, ctx) ==
  [ok |-> FALSE, msg |-> msg, arg |-> arg, loc |-> loc, ctx |-> ctx]

\* mutant of find_var: the scan keeps the last match, the oldest declaration
find_var_oldest(t, lcls) ==
  LET hits == {i \in 1..Len(lcls) : lcls[i].name = toks[t].text}
  IN  IF hits = {} THEN NULL
      ELSE lcls[CHOOSE i \in hits : \A j \in hits : i >= j].id

\* find_var(tok): the first entry from the head whose name is the token's text
find_var(t, lcls) ==
  LET hits == {i \in 1..Len(lcls) : lcls[i].name = toks[t].text}
  IN  IF hits = {} THEN NULL
      ELSE lcls[CHOOSE i \in hits : \A j \in hits : i <= j].id

\* new_lvar(name, ty): a fresh Obj pushed at the head of locals
new_lvar(name, ty, lcls) ==
  <<[name |-> name, ty |-> ty, id |-> Len(lcls) + 1]>> \o lcls

\* the Obj an id points to
VarOf(id, lcls) == lcls[CHOOSE i \in 1..Len(lcls) : lcls[i].id = id]

--------------------------------------------------------------------------
(* The type annotator (type.c, declared at src/unnamed/part_001:132-135) *)

\* F applied to the value of v, with v evaluated once
Bind(v, F(_)) == CHOOSE r \in {F(x) : x \in {v}} : TRUE

StmtKinds == {"ND_RETURN", "ND_IF", "ND_FOR", "ND_BLOCK", "ND_EXPR_STMT"}

RECURSIVE add_type(_, _)
RECURSIVE add_type_list(_, _)

\* the node's own type, its children typed already
own_type(m, cx) ==
  CASE m.kind \in StmtKinds -> [node |-> m, ctx |-> cx]
    [] m.kind = "ND_VAR" ->
         [node |-> [m EXCEPT !.ty = VarOf(m.var, cx.locals).ty], ctx |-> cx]
    [] m.kind = "ND_ADDR" ->
         Bind(pointer_to(m.lhs.ty, cx.types), LAMBDA pt :
           [node |-> [m EXCEPT !.ty = pt.ty], ctx |-> [cx EXCEPT !.types = pt.heap]])
    [] m.kind = "ND_DEREF" ->
         [node |-> [m EXCEPT !.ty = IF cx.types[m.lhs.ty].kind = "TY_PTR"
                                      THEN cx.types[m.lhs.ty].base ELSE ty_int],
          ctx  |-> cx]
    [] OTHER -> [node |-> [m EXCEPT !.ty = ty_int], ctx |-> cx]

\* add_type(node): children first, then the node's own type; a node that has
\* a type already is left alone
add_type(node, ctx) ==
  IF node.kind = "NULL" \/ node.ty # NULL THEN [node |-> node, ctx |-> ctx]
  ELSE
    Bind(add_type(node.lhs, ctx), LAMBDA l :
    Bind(add_type(node.rhs, l.ctx), LAMBDA r :
    Bind(add_type(node.cond, r.ctx), LAMBDA c :
    Bind(add_type(node.then, c.ctx), LAMBDA t :
    Bind(add_type(node.els, t.ctx), LAMBDA e :
    Bind(add_type(node.init, e.ctx), LAMBDA i :
    Bind(add_type(node.inc, i.ctx), LAMBDA n :
    Bind(add_type_list(node.body, n.ctx), LAMBDA b :
      own_type([node EXCEPT !.lhs = l.node, !.rhs = r.node, !.cond = c.node,
                            !.then = t.node, !.els = e.node, !.init = i.node,
                            !.inc = n.node, !.body = b.nodes],
               b.ctx)))))))))

add_type_list(nodes, ctx) ==
  IF nodes = <<>> THEN [nodes |-> <<>>, ctx |-> ctx]
  ELSE Bind(add_type(Head(nodes), ctx), LAMBDA h :
       Bind(add_type_list(Tail(nodes), h.ctx), LAMBDA t :
         [nodes |-> <<h.node>> \o t.nodes, ctx |-> t.ctx]))

--------------------------------------------------------------------------
(* Additive operators: src/parse.c:280-329 *)

\* mutant of new_add: the pointer + pointer check is missing
new_add_unchecked(lhs0, rhs0, t, ctx0) ==
  Bind(add_type(lhs0, ctx0), LAMBDA a :
  Bind(add_type(rhs0, a.ctx), LAMBDA b :
    LET lhs == a.node
        rhs == b.node
        ctx == b.ctx
        lty == ctx.types[lhs.ty]
        rty == ctx.types[rhs.ty]
    IN  IF is_integer(lty) /\ is_integer(rty)
          THEN Ok(new_binary("ND_ADD", lhs, rhs, t), t, ctx)
        ELSE
          LET swap == lty.base = NULL /\ rty.base # NULL
              lhs1 == IF swap THEN rhs ELSE lhs
              rhs1 == IF swap THEN lhs1 ELSE rhs
              mul8 == [new_binary("ND_MUL", rhs1, new_num(8, t), t)
                         EXCEPT !.ty = ty_int]
          IN  Ok([new_binary("ND_ADD", lhs1, mul8, t) EXCEPT !.ty = lhs1.ty], t, ctx)))

\* new_add(lhs, rhs, tok)
new_add(lhs0, rhs0, t, ctx0) ==
  Bind(add_type(lhs0, ctx0), LAMBDA a :
  Bind(add_type(rhs0, a.ctx), LAMBDA b :
    LET lhs == a.node
        rhs == b.node
        ctx == b.ctx
        lty == ctx.types[lhs.ty]
        rty == ctx.types[rhs.ty]
    IN  IF is_integer(lty) /\ is_integer(rty)
          THEN Ok(new_binary("ND_ADD", lhs, rhs, t), t, ctx)
        ELSE IF lty.base # NULL /\ rty.base # NULL
          THEN Err("invalid operands", "", t, ctx)
        ELSE
          \* "Canonicalize `num + ptr` to `ptr + num`":
          \*   tmp = lhs; lhs = rhs; rhs = lhs;
          LET swap == lty.base = NULL /\ rty.base # NULL
              lhs1 == IF swap THEN rhs ELSE lhs
              rhs1 == IF swap THEN lhs1 ELSE rhs
              mul8 == [new_binary("ND_MUL", rhs1, new_num(8, t), t)
                         EXCEPT !.ty = ty_int]
          IN  Ok([new_binary("ND_ADD", lhs1, mul8, t) EXCEPT !.ty = lhs1.ty], t, ctx)))

\* mutant of new_sub: pointer - pointer is left as the byte difference
new_sub_unscaled(lhs0, rhs0, t, ctx0) ==
  Bind(add_type(lhs0, ctx0), LAMBDA a :
  Bind(add_type(rhs0, a.ctx), LAMBDA b :
    LET lhs == a.node
        rhs == b.node
        ctx == b.ctx
        lty == ctx.types[lhs.ty]
        rty == ctx.types[rhs.ty]
    IN  IF is_integer(lty) /\ is_integer(rty)
          THEN Ok(new_binary("ND_SUB", lhs, rhs, t), t, ctx)
        ELSE IF lty.base # NULL /\ is_integer(rty)
          THEN LET mul8 == [new_binary("ND_MUL", rhs, new_num(8, t), t)
                              EXCEPT !.ty = ty_int]
               IN  Ok([new_binary("ND_SUB", lhs, mul8, t) EXCEPT !.ty = lhs.ty], t, ctx)
        ELSE IF lty.base # NULL /\ rty.base # NULL
          THEN Ok([new_binary("ND_SUB", lhs, rhs, t) EXCEPT !.ty = ty_int], t, ctx)
        ELSE Err("invalid operands", "", t, ctx)))

\* new_sub(lhs, rhs, tok)
new_sub(lhs0, rhs0, t, ctx0) ==
  Bind(add_type(lhs0, ctx0), LAMBDA a :
  Bind(add_type(rhs0, a.ctx), LAMBDA b :
    LET lhs == a.node
        rhs == b.node
        ctx == b.ctx
        lty == ctx.types[lhs.ty]
        rty == ctx.types[rhs.ty]
    IN  IF is_integer(lty) /\ is_integer(rty)
          THEN Ok(new_binary("ND_SUB", lhs, rhs, t), t, ctx)
        ELSE IF lty.base # NULL /\ is_integer(rty)
          THEN LET mul8 == [new_binary("ND_MUL", rhs, new_num(8, t), t)
                              EXCEPT !.ty = ty_int]
               IN  Ok([new_binary("ND_SUB", lhs, mul8, t) EXCEPT !.ty = lhs.ty], t, ctx)
        ELSE IF lty.base # NULL /\ rty.base # NULL
          THEN LET sub == [new_binary("ND_SUB", lhs, rhs, t) EXCEPT !.ty = ty_int]
               IN  Ok([new_binary("ND_DIV", sub, new_num(8, t), t) EXCEPT !.ty = ty_int],
                      t, ctx)
        ELSE Err("invalid operands", "", t, ctx)))

\* history: one new_add/new_sub call, with the operands as the call types them
Called(fn, lhs0, rhs0, ctx0, result) ==
  Bind(add_type(lhs0, ctx0), LAMBDA a :
  Bind(add_type(rhs0, a.ctx), LAMBDA b :
  Bind(result, LAMBDA res :
    [res EXCEPT !.ctx.calls =
       Append(@, [fn |-> fn, lhs |-> a.node, rhs |-> b.node, ok |-> res.ok,
                  node |-> IF res.ok THEN res.node ELSE NilNode,
                  msg  |-> IF res.ok THEN "" ELSE res.msg])])))

--------------------------------------------------------------------------
(* Expressions: src/parse.c:215-423 *)

\* the call of a grammar-rule function, by its name
RECURSIVE call(_, _, _)

RECURSIVE equality_loop(_, _, _, _)
RECURSIVE relational_loop(_, _, _, _)
RECURSIVE relational_loop_unswapped(_, _, _, _)
RECURSIVE add_loop(_, _, _, _)
RECURSIVE mul_loop(_, _, _, _)

\* expr = assign
expr(t, ctx) == call("assign", t, ctx)

\* mutant of primary: an unknown identifier declares a variable (the line
\* commented out at src/parse.c:415) instead of failing
primary_autodeclare(t, ctx) ==
  IF equal(t, "(") THEN
    Bind(call("expr", next(t), ctx), LAMBDA e :
      IF ~e.ok THEN e
      ELSE IF ~equal(e.rest, ")") THEN Err("expected", ")", e.rest, e.ctx)
      ELSE Ok(e.node, next(e.rest), e.ctx))
  ELSE IF toks[t].kind = "TK_NUM" THEN
    Ok(new_num(toks[t].val, t), next(t), ctx)
  ELSE IF toks[t].kind = "TK_IDENT" THEN
    IF equal(next(t), "(") THEN
      IF ~equal(next(next(t)), ")") THEN Err("expected", ")", next(next(t)), ctx)
      ELSE Ok([new_node("ND_FUNCALL", t) EXCEPT !.funcname = toks[t].text],
              next(next(next(t))), ctx)
    ELSE
      Bind(find_var(t, ctx.locals), LAMBDA var :
        IF var = NULL
          THEN Ok(new_var_node(Len(ctx.locals) + 1, t), next(t),
                  [ctx EXCEPT !.locals = new_lvar(toks[t].text, ty_int, @)])
        ELSE Ok(new_var_node(var, t), next(t), ctx))
  ELSE Err("expected an expression", "", t, ctx)

\* mutant of primary: a number is built and not consumed
primary_keeps_number(t, ctx) ==
  IF equal(t, "(") THEN
    Bind(call("expr", next(t), ctx), LAMBDA e :
      IF ~e.ok THEN e
      ELSE IF ~equal(e.rest, ")") THEN Err("expected", ")", e.rest, e.ctx)
      ELSE Ok(e.node, next(e.rest), e.ctx))
  ELSE IF toks[t].kind = "TK_NUM" THEN
    Ok(new_num(toks[t].val, t), t, ctx)
  ELSE IF toks[t].kind = "TK_IDENT" THEN
    IF equal(next(t), "(") THEN
      IF ~equal(next(next(t)), ")") THEN Err("expected", ")", next(next(t)), ctx)
      ELSE Ok([new_node("ND_FUNCALL", t) EXCEPT !.funcname = toks[t].text],
              next(next(next(t))), ctx)
    ELSE
      Bind(find_var(t, ctx.locals), LAMBDA var :
        IF var = NULL THEN Err("undefined variable", "", t, ctx)
        ELSE Ok(new_var_node(var, t), next(t), ctx))
  ELSE Err("expected an expression", "", t, ctx)

\* mutant of primary: a token that starts no expression reads as the number 0
primary_missing_is_zero(t, ctx) ==
  IF equal(t, "(") THEN
    Bind(call("expr", next(t), ctx), LAMBDA e :
      IF ~e.ok THEN e
      ELSE IF ~equal(e.rest, ")") THEN Err("expected", ")", e.rest, e.ctx)
      ELSE Ok(e.node, next(e.rest), e.ctx))
  ELSE IF toks[t].kind = "TK_NUM" THEN
    Ok(new_num(toks[t].val, t), next(t), ctx)
  ELSE IF toks[t].kind = "TK_IDENT" THEN
    IF equal(next(t), "(") THEN
      IF ~equal(next(next(t)), ")") THEN Err("expected", ")", next(next(t)), ctx)
      ELSE Ok([new_node("ND_FUNCALL", t) EXCEPT !.funcname = toks[t].text],
              next(next(next(t))), ctx)
    ELSE
      Bind(find_var(t, ctx.locals), LAMBDA var :
        IF var = NULL THEN Err("undefined variable", "", t, ctx)
        ELSE Ok(new_var_node(var, t), next(t), ctx))
  ELSE Ok(new_num(0, t), t, ctx)

\* primary = "(" expr ")" | ident args? | num
primary(t, ctx) ==
  IF equal(t, "(") THEN
    Bind(call("expr", next(t), ctx), LAMBDA e :
      IF ~e.ok THEN e
      ELSE IF ~equal(e.rest, ")") THEN Err("expected", ")", e.rest, e.ctx)
      ELSE Ok(e.node, next(e.rest), e.ctx))
  ELSE IF toks[t].kind = "TK_NUM" THEN
    Ok(new_num(toks[t].val, t), next(t), ctx)
  ELSE IF toks[t].kind = "TK_IDENT" THEN
    IF equal(next(t), "(") THEN
      IF ~equal(next(next(t)), ")") THEN Err("expected", ")", next(next(t)), ctx)
      ELSE Ok([new_node("ND_FUNCALL", t) EXCEPT !.funcname = toks[t].text],
              next(next(next(t))), ctx)
    ELSE
      Bind(find_var(t, ctx.locals), LAMBDA var :
        IF var = NULL THEN Err("undefined variable", "", t, ctx)
        ELSE Ok(new_var_node(var, t), next(t), ctx))
  ELSE Err("expected an expression", "", t, ctx)

\* unary = ("+" | "-" | "*" | "&") unary | primary
unary(t, ctx) ==
  IF equal(t, "+") THEN call("unary", next(t), ctx)
  ELSE IF equal(t, "-") THEN
    Bind(call("unary", next(t), ctx), LAMBDA u :
      IF ~u.ok THEN u ELSE Ok(new_unary("ND_NEG", u.node, t), u.rest, u.ctx))
  ELSE IF equal(t, "*") THEN
    Bind(call("unary", next(t), ctx), LAMBDA u :
      IF ~u.ok THEN u ELSE Ok(new_unary("ND_DEREF", u.node, t), u.rest, u.ctx))
  ELSE IF equal(t, "&") THEN
    Bind(call("unary", next(t), ctx), LAMBDA u :
      IF ~u.ok THEN u ELSE Ok(new_unary("ND_ADDR", u.node, t), u.rest, u.ctx))
  ELSE call("primary", t, ctx)

\* mutant of mul_loop: the right operand is a whole mul, the rule is
\* right-recursive
mul_loop_right(node, t, start, ctx) ==
  IF equal(t, "*") THEN
    Bind(call("mul", next(t), ctx), LAMBDA m :
      IF ~m.ok THEN m
      ELSE Ok(new_binary("ND_MUL", node, m.node, start), m.rest, m.ctx))
  ELSE IF equal(t, "/") THEN
    Bind(call("mul", next(t), ctx), LAMBDA m :
      IF ~m.ok THEN m
      ELSE Ok(new_binary("ND_DIV", node, m.node, start), m.rest, m.ctx))
  ELSE Ok(node, t, ctx)

\* the for (;;) of mul
mul_loop(node, t, start, ctx) ==
  IF equal(t, "*") THEN
    Bind(call("unary", next(t), ctx), LAMBDA u :
      IF ~u.ok THEN u
      ELSE mul_loop(new_binary("ND_MUL", node, u.node, start), u.rest, start, u.ctx))
  ELSE IF equal(t, "/") THEN
    Bind(call("unary", next(t), ctx), LAMBDA u :
      IF ~u.ok THEN u
      ELSE mul_loop(new_binary("ND_DIV", node, u.node, start), u.rest, start, u.ctx))
  ELSE Ok(node, t, ctx)

\* mul = unary ("*" unary | "/" unary)*
mul(t, ctx) ==
  Bind(call("unary", t, ctx), LAMBDA u :
    IF ~u.ok THEN u ELSE mul_loop(u.node, u.rest, u.rest, u.ctx))

\* the for (;;) of add
add_loop(node, t, start, ctx) ==
  IF equal(t, "+") THEN
    Bind(call("mul", next(t), ctx), LAMBDA m :
      IF ~m.ok THEN m
      ELSE Bind(Called("new_add", node, m.node, m.ctx,
                       new_add(node, m.node, start, m.ctx)), LAMBDA r :
             IF ~r.ok THEN r ELSE add_loop(r.node, m.rest, start, r.ctx)))
  ELSE IF equal(t, "-") THEN
    Bind(call("mul", next(t), ctx), LAMBDA m :
      IF ~m.ok THEN m
      ELSE Bind(Called("new_sub", node, m.node, m.ctx,
                       new_sub(node, m.node, start, m.ctx)), LAMBDA r :
             IF ~r.ok THEN r ELSE add_loop(r.node, m.rest, start, r.ctx)))
  ELSE Ok(node, t, ctx)

\* add = mul ("+" mul | "-" mul)*
add(t, ctx) ==
  Bind(call("mul", t, ctx), LAMBDA m :
    IF ~m.ok THEN m ELSE add_loop(m.node, m.rest, m.rest, m.ctx))

\* mutant of relational_loop: ">" and ">=" keep the operands in source order
relational_loop_unswapped(node, t, start, ctx) ==
  IF equal(t, "<") THEN
    Bind(call("add", next(t), ctx), LAMBDA a :
      IF ~a.ok THEN a
      ELSE relational_loop_unswapped(new_binary("ND_LT", node, a.node, start),
                           a.rest, start, a.ctx))
  ELSE IF equal(t, "<=") THEN
    Bind(call("add", next(t), ctx), LAMBDA a :
      IF ~a.ok THEN a
      ELSE relational_loop_unswapped(new_binary("ND_LE", node, a.node, start),
                           a.rest, start, a.ctx))
  ELSE IF equal(t, ">") THEN
    Bind(call("add", next(t), ctx), LAMBDA a :
      IF ~a.ok THEN a
      ELSE relational_loop_unswapped(new_binary("ND_LT", node, a.node, start),
                           a.rest, start, a.ctx))
  ELSE IF equal(t, ">=") THEN
    Bind(call("add", next(t), ctx), LAMBDA a :
      IF ~a.ok THEN a
      ELSE relational_loop_unswapped(new_binary("ND_LE", node, a.node, start),
                           a.rest, start, a.ctx))
  ELSE Ok(node, t, ctx)

\* the for (;;) of relational
relational_loop(node, t, start, ctx) ==
  IF equal(t, "<") THEN
    Bind(call("add", next(t), ctx), LAMBDA a :
      IF ~a.ok THEN a
      ELSE relational_loop(new_binary("ND_LT", node, a.node, start),
                           a.rest, start, a.ctx))
  ELSE IF equal(t, "<=") THEN
    Bind(call("add", next(t), ctx), LAMBDA a :
      IF ~a.ok THEN a
      ELSE relational_loop(new_binary("ND_LE", node, a.node, start),
                           a.rest, start, a.ctx))
  ELSE IF equal(t, ">") THEN
    Bind(call("add", next(t), ctx), LAMBDA a :
      IF ~a.ok THEN a
      ELSE relational_loop(new_binary("ND_LT", a.node, node, start),
                           a.rest, start, a.ctx))
  ELSE IF equal(t, ">=") THEN
    Bind(call("add", next(t), ctx), LAMBDA a :
      IF ~a.ok THEN a
      ELSE relational_loop(new_binary("ND_LE", a.node, node, start),
                           a.rest, start, a.ctx))
  ELSE Ok(node, t, ctx)

\* relational = add ("<" add | "<=" add | ">" add | ">=" add)*
relational(t, ctx) ==
  Bind(call("add", t, ctx), LAMBDA a :
    IF ~a.ok THEN a ELSE relational_loop(a.node, a.rest, a.rest, a.ctx))

\* the for (;;) of equality
equality_loop(node, t, start, ctx) ==
  IF equal(t, "==") THEN
    Bind(call("relational", next(t), ctx), LAMBDA r :
      IF ~r.ok THEN r
      ELSE equality_loop(new_binary("ND_EQ", node, r.node, start),
                         r.rest, start, r.ctx))
  ELSE IF equal(t, "!=") THEN
    Bind(call("relational", next(t), ctx), LAMBDA r :
      IF ~r.ok THEN r
      ELSE equality_loop(new_binary("ND_NE", node, r.node, start),
                         r.rest, start, r.ctx))
  ELSE Ok(node, t, ctx)

\* equality = relational ("==" relational | "!=" relational)*
equality(t, ctx) ==
  Bind(call("relational", t, ctx), LAMBDA r :
    IF ~r.ok THEN r ELSE equality_loop(r.node, r.rest, r.rest, r.ctx))

\* assign = equality ("=" assign)?
\* new_binary(ND_ASSIGN, node, assign(&tok, tok->next), tok): the last argument
\* is read before or after the call of assign moves tok
assign(t, ctx) ==
  Bind(call("equality", t, ctx), LAMBDA e :
    IF ~e.ok THEN e
    ELSE IF equal(e.rest, "=") THEN
      Bind(call("assign", next(e.rest), e.ctx), LAMBDA a :
        IF ~a.ok THEN a
        ELSE Ok(new_binary("ND_ASSIGN", e.node, a.node,
                           IF argsLate THEN a.rest ELSE e.rest),
                a.rest, a.ctx))
    ELSE Ok(e.node, e.rest, e.ctx))

--------------------------------------------------------------------------
(* Declarations and statements: src/parse.c:90-213 *)

\* consume(&tok, tok, str): declared at src/unnamed/part_001:59
consume(t, str) == IF equal(t, str) THEN [hit |-> TRUE, rest |-> next(t)]
                   ELSE [hit |-> FALSE, rest |-> t]

RECURSIVE declarator(_, _, _)

\* declarator = "*"* ident; the declared Type gets the name token written into it
declarator(t, ty, ctx) ==
  IF consume(t, "*").hit THEN
    Bind(pointer_to(ty, ctx.types), LAMBDA pt :
      declarator(consume(t, "*").rest, pt.ty, [ctx EXCEPT !.types = pt.heap]))
  ELSE IF toks[t].kind # "TK_IDENT" THEN Err("expected a variable name", "", t, ctx)
  ELSE [ok |-> TRUE, ty |-> ty, rest |-> next(t),
        ctx |-> [ctx EXCEPT !.types[ty].name = t]]

RECURSIVE decl_loop(_, _, _, _)

\* the declarator's variable, and its initializer if there is one
declare(d, i, stmts) ==
  LET nameTok == d.ctx.types[d.ty].name
      var     == Len(d.ctx.locals) + 1
      cx      == [d.ctx EXCEPT !.locals = new_lvar(toks[nameTok].text, d.ty, @)]
  IN  IF toks[nameTok].kind # "TK_IDENT"
        THEN Err("expected an identifier", "", nameTok, d.ctx)
      ELSE IF ~equal(d.rest, "=") THEN decl_loop(d.rest, i + 1, stmts, cx)
      ELSE
        Bind(call("assign", next(d.rest), cx), LAMBDA r :
          IF ~r.ok THEN r
          ELSE decl_loop(r.rest, i + 1,
                 Append(stmts,
                   new_unary("ND_EXPR_STMT",
                     new_binary("ND_ASSIGN", new_var_node(var, nameTok), r.node, r.rest),
                     r.rest)),
                 r.ctx))

\* the while (!equal(tok, ";")) of declaration
decl_loop(t, i, stmts, ctx) ==
  IF equal(t, ";") THEN Ok([new_node("ND_BLOCK", t) EXCEPT !.body = stmts], next(t), ctx)
  ELSE IF i > 0 /\ ~equal(t, ",") THEN Err("expected", ",", t, ctx)
  ELSE Bind(declarator(IF i > 0 THEN next(t) ELSE t, ty_int, ctx), LAMBDA d :
         IF ~d.ok THEN d ELSE declare(d, i, stmts))

\* declaration = declspec (declarator ("=" expr)? ("," declarator ("=" expr)?)*)? ";"
declaration(t, ctx) ==
  IF ~equal(t, "int") THEN Err("expected", "int", t, ctx)
  ELSE decl_loop(next(t), 0, <<>>, ctx)

\* expr-stmt = expr? ";"
expr_stmt(t, ctx) ==
  IF equal(t, ";") THEN Ok(new_node("ND_BLOCK", t), next(t), ctx)
  ELSE
    Bind(call("expr", t, ctx), LAMBDA e :
      IF ~e.ok THEN e
      ELSE IF ~equal(e.rest, ";") THEN Err("expected", ";", e.rest, e.ctx)
      ELSE Ok([new_node("ND_EXPR_STMT", t) EXCEPT !.lhs = e.node], next(e.rest), e.ctx))

RECURSIVE compound_loop(_, _, _, _)

\* one iteration of the while (!equal(tok, "}")) of compound_stmt
compound_item(t, ctx) ==
  Bind(IF equal(t, "int") THEN call("declaration", t, ctx)
       ELSE call("stmt", t, ctx), LAMBDA r :
    IF ~r.ok THEN r
    ELSE Bind(add_type(r.node, r.ctx), LAMBDA a : Ok(a.node, r.rest, a.ctx)))

compound_loop(t, stmts, first, ctx) ==
  IF equal(t, "}")
    THEN Ok([new_node("ND_BLOCK", first) EXCEPT !.body = stmts], next(t), ctx)
  ELSE Bind(compound_item(t, ctx), LAMBDA r :
         IF ~r.ok THEN r
         ELSE compound_loop(r.rest, Append(stmts, r.node), first, r.ctx))

\* compound-stmt = (declaration | stmt)* "}"
compound_stmt(t, ctx) == compound_loop(t, <<>>, t, ctx)

\* the tail of "if": "(" expr ")" stmt ("else" stmt)?
if_stmt(t, ctx) ==
  IF ~equal(next(t), "(") THEN Err("expected", "(", next(t), ctx)
  ELSE
    Bind(call("expr", next(next(t)), ctx), LAMBDA c :
      IF ~c.ok THEN c
      ELSE IF ~equal(c.rest, ")") THEN Err("expected", ")", c.rest, c.ctx)
      ELSE
        Bind(call("stmt", next(c.rest), c.ctx), LAMBDA th :
          IF ~th.ok THEN th
          ELSE IF equal(th.rest, "else") THEN
            Bind(call("stmt", next(th.rest), th.ctx), LAMBDA el :
              IF ~el.ok THEN el
              ELSE Ok([new_node("ND_IF", t) EXCEPT !.cond = c.node,
                         !.then = th.node, !.els = el.node],
                      el.rest, el.ctx))
          ELSE Ok([new_node("ND_IF", t) EXCEPT !.cond = c.node, !.then = th.node],
                  th.rest, th.ctx)))

\* the tail of "for": "(" expr-stmt expr? ";" expr? ")" stmt
for_stmt(t, ctx) ==
  IF ~equal(next(t), "(") THEN Err("expected", "(", next(t), ctx)
  ELSE
    Bind(call("expr_stmt", next(next(t)), ctx), LAMBDA i :
      IF ~i.ok THEN i
      ELSE
        Bind(IF ~equal(i.rest, ";") THEN call("expr", i.rest, i.ctx)
             ELSE Ok(NilNode, i.rest, i.ctx), LAMBDA c :
          IF ~c.ok THEN c
          ELSE IF ~equal(c.rest, ";") THEN Err("expected", ";", c.rest, c.ctx)
          ELSE
            Bind(IF ~equal(next(c.rest), ")") THEN call("expr", next(c.rest), c.ctx)
                 ELSE Ok(NilNode, next(c.rest), c.ctx), LAMBDA n :
              IF ~n.ok THEN n
              ELSE IF ~equal(n.rest, ")") THEN Err("expected", ")", n.rest, n.ctx)
              ELSE
                Bind(call("stmt", next(n.rest), n.ctx), LAMBDA th :
                  IF ~th.ok THEN th
                  ELSE Ok([new_node("ND_FOR", t) EXCEPT !.init = i.node,
                             !.cond = c.node, !.inc = n.node, !.then = th.node],
                          th.rest, th.ctx)))))

\* the tail of "while": "(" expr ")" stmt
while_stmt(t, ctx) ==
  IF ~equal(next(t), "(") THEN Err("expected", "(", next(t), ctx)
  ELSE
    Bind(call("expr", next(next(t)), ctx), LAMBDA c :
      IF ~c.ok THEN c
      ELSE IF ~equal(c.rest, ")") THEN Err("expected", ")", c.rest, c.ctx)
      ELSE
        Bind(call("stmt", next(c.rest), c.ctx), LAMBDA th :
          IF ~th.ok THEN th
          ELSE Ok([new_node("ND_FOR", t) EXCEPT !.cond = c.node, !.then = th.node],
                  th.rest, th.ctx)))

\* stmt = "return" expr ";" | "if" ... | "for" ... | "while" ... | "{" compound-stmt
\*      | expr-stmt
stmt(t, ctx) ==
  IF equal(t, "return") THEN
    Bind(call("expr", next(t), ctx), LAMBDA e :
      IF ~e.ok THEN e
      ELSE IF ~equal(e.rest, ";") THEN Err("expected", ";", e.rest, e.ctx)
      \* new_unary(ND_RETURN, expr(&tok, tok->next), tok): the last argument is
      \* read before or after the call of expr moves tok
      ELSE Ok(new_unary("ND_RETURN", e.node, IF argsLate THEN e.rest ELSE t),
              next(e.rest), e.ctx))
  ELSE IF equal(t, "if") THEN if_stmt(t, ctx)
  ELSE IF equal(t, "for") THEN for_stmt(t, ctx)
  ELSE IF equal(t, "while") THEN while_stmt(t, ctx)
  ELSE IF equal(t, "{") THEN call("compound_stmt", next(t), ctx)
  ELSE call("expr_stmt", t, ctx)

\* the grammar-rule functions, by name
call(rule, t, ctx) ==
  CASE rule = "expr"          -> expr(t, ctx)
    [] rule = "assign"        -> assign(t, ctx)
    [] rule = "equality"      -> equality(t, ctx)
    [] rule = "relational"    -> relational(t, ctx)
    [] rule = "add"           -> add(t, ctx)
    [] rule = "mul"           -> mul(t, ctx)
    [] rule = "unary"         -> unary(t, ctx)
    [] rule = "primary"       -> primary(t, ctx)
    [] rule = "declaration"   -> declaration(t, ctx)
    [] rule = "stmt"          -> stmt(t, ctx)
    [] rule = "expr_stmt"     -> expr_stmt(t, ctx)
    [] rule = "compound_stmt" -> compound_stmt(t, ctx)

--------------------------------------------------------------------------
(* The inputs of parse(): token lists, as the tokenizer hands them over *)

N1 == Num("1", 1)

\* the operands of the additive statements
Operands == { <<N1>>, <<Ident("a")>>, <<Ident("p")>>, <<Punct("&"), Ident("a")>> }

Decls ==
  { <<Keyword("int"), Ident("a"), Punct(";")>>,
    <<Keyword("int"), Punct("*"), Ident("a"), Punct(";")>>,
    <<Keyword("int"), Ident("a"), Punct(","), Punct("*"), Ident("p"), Punct(";")>>,
    <<Keyword("int"), Ident("p"), Punct("="), N1, Punct(";")>>,
    <<Keyword("int"), Punct(";")>>,
    <<Keyword("int"), Ident("a"), Punct(";"), Keyword("int"), Ident("a"), Punct(";")>> }

AddStmts ==
  { x \o <<Punct(op)>> \o y \o <<Punct(";")>> :
      x \in Operands, y \in Operands, op \in {"+", "-"} }

OtherStmts ==
  { <<Ident("a"), Punct(";")>>,
    <<Ident("b"), Punct(";")>>,
    <<Ident("f"), Punct("("), Punct(")"), Punct(";")>>,
    <<Ident("a"), Punct("("), Punct(")"), Punct(";")>>,
    <<Ident("a"), Punct("("), Punct(";")>>,
    <<Ident("a"), Punct("="), N1, Punct(";")>>,
    <<Keyword("return"), Ident("a"), Punct(";")>>,
    <<Punct("{"), Keyword("int"), Ident("a"), Punct(";"), Punct("}")>>,
    <<Punct(";")>> }

Stmts == Decls \cup AddStmts \cup OtherStmts

\* what may follow the "}" of the top-level block
Trailers == { <<N1>>, <<Punct("}")>>, <<Ident("a"), Punct(";")>> }

RECURSIVE Bodies(_)
\* the token lists of at most n statements
Bodies(n) ==
  IF n = 0 THEN { <<>> }
  ELSE Bodies(n - 1) \cup { b \o st : b \in Bodies(n - 1), st \in Stmts }

Programs ==
  { <<Punct("{")>> \o b \o <<Punct("}"), Eof>> : b \in Bodies(MaxStmts) }
  \cup { <<Punct("{")>> \o b \o <<Punct("}")>> \o tr \o <<Eof>> :
           b \in Bodies(MaxStmts - 1), tr \in Trailers }
  \cup { b \o <<Eof>> : b \in Bodies(MaxStmts - 1) }

--------------------------------------------------------------------------
(* The process: parse() of src/parse.c:426-432, one compound_stmt iteration
   per step *)

NoErr == [msg |-> "", arg |-> "", loc |-> NULL]

\* the abstract machine before it runs anything
Idle == [rax |-> 0, rdi |-> 0, rdx |-> 0, flags |-> <<0, 0>>, stack |-> <<>>,
         trap |-> FALSE]

Init ==
  /\ toks \in Programs
  /\ tok = 1
  /\ locals = <<>>
  /\ types = <<TyInt>>
  /\ body = <<>>
  /\ prog = NilNode
  /\ pc = "parse"
  /\ err = NoErr
  /\ calls = <<>>
  /\ argsLate \in BOOLEAN
  /\ pending = <<>>
  /\ snapshot = "parse.c"
  /\ mem = <<>>
  /\ p = NULL
  /\ root = NilNode
  /\ out = <<>>
  /\ depth = 0
  /\ work = <<>>
  /\ cpu = Idle

\* error_tok(): the diagnostic is printed and the process exits
Exit(r) ==
  /\ pc' = "error"
  /\ err' = [msg |-> r.msg, arg |-> r.arg, loc |-> r.loc]
  /\ locals' = r.ctx.locals
  /\ types' = r.ctx.types
  /\ calls' = r.ctx.calls
  /\ UNCHANGED <<toks, tok, body, prog, argsLate, pending, calcVars>>

\* parse(): tok = skip(tok, "{"); prog = calloc(...)
ParseBegin ==
  /\ snapshot = "parse.c"
  /\ pc = "parse"
  /\ IF ~equal(tok, "{")
       THEN Exit(Err("expected", "{", tok, Ctx(locals, types, calls)))
       ELSE /\ tok' = next(tok)
            /\ pc' = "compound_stmt"
            /\ UNCHANGED <<toks, err, parseVars, calcVars>>

\* compound_stmt(): one iteration of the loop, a declaration or a statement
Item ==
  \E r \in {compound_item(tok, Ctx(locals, types, calls))} :
    IF ~r.ok THEN Exit(r)
    ELSE /\ body' = Append(body, r.node)
         /\ tok' = r.rest
         /\ locals' = r.ctx.locals
         /\ types' = r.ctx.types
         /\ calls' = r.ctx.calls
         /\ UNCHANGED <<toks, prog, pc, err, argsLate, pending, calcVars>>

Declaration ==
  /\ pc = "compound_stmt"
  /\ ~equal(tok, "}")
  /\ equal(tok, "int")
  /\ Item

Stmt ==
  /\ pc = "compound_stmt"
  /\ ~equal(tok, "}")
  /\ ~equal(tok, "int")
  /\ Item

\* compound_stmt() returns the block, parse() returns the Function
ParseEnd ==
  /\ pc = "compound_stmt"
  /\ equal(tok, "}")
  /\ tok' = next(tok)
  /\ prog' = [body   |-> [new_node("ND_BLOCK", 2) EXCEPT !.body = body],
              locals |-> locals]
  /\ pc' = "done"
  /\ UNCHANGED <<toks, locals, types, body, err, calls, argsLate, pending, calcVars>>

Next == ParseBegin \/ Declaration \/ Stmt \/ ParseEnd

Spec == Init /\ [][Next]_vars


--------------------------------------------------------------------------
(* Claims about the parser *)

IsPtr(n) == types[n.ty].kind = "TY_PTR"
IsInt(n) == types[n.ty].kind = "TY_INT"

\* the node new_add/new_sub is claimed to build from a pointer and an offset
ScaledOffset(c, ptr, off) ==
  /\ c.ok
  /\ c.node.kind = (IF c.fn = "new_add" THEN "ND_ADD" ELSE "ND_SUB")
  /\ c.node.lhs = ptr
  /\ c.node.rhs.kind = "ND_MUL"
  /\ c.node.rhs.lhs = off
  /\ c.node.rhs.rhs.kind = "ND_NUM"
  /\ c.node.rhs.rhs.val = 8
  /\ c.node.ty = ptr.ty

\* C1: in every new_add/new_sub call with exactly one pointer operand (ptr + int,
\* int + ptr, ptr - int) the node built has the pointer operand as its left child,
\* MUL(integer operand, 8) as its right child, and the pointer operand's type.
C1_PointerOffsetScaled ==
  \A i \in 1..Len(calls) :
    /\ (IsPtr(calls[i].lhs) /\ IsInt(calls[i].rhs))
          => ScaledOffset(calls[i], calls[i].lhs, calls[i].rhs)
    /\ (calls[i].fn = "new_add" /\ IsInt(calls[i].lhs) /\ IsPtr(calls[i].rhs))
          => ScaledOffset(calls[i], calls[i].rhs, calls[i].lhs)

\* C2: new_sub of two pointers builds DIV(SUB(l, r), NUM 8), the SUB and the DIV
\* both of Integer type.
C2_PointerDifference ==
  \A i \in 1..Len(calls) :
    (calls[i].fn = "new_sub" /\ IsPtr(calls[i].lhs) /\ IsPtr(calls[i].rhs)) =>
      /\ calls[i].ok
      /\ calls[i].node.kind = "ND_DIV"
      /\ IsInt(calls[i].node)
      /\ calls[i].node.rhs.kind = "ND_NUM"
      /\ calls[i].node.rhs.val = 8
      /\ calls[i].node.lhs.kind = "ND_SUB"
      /\ IsInt(calls[i].node.lhs)
      /\ calls[i].node.lhs.lhs = calls[i].lhs
      /\ calls[i].node.lhs.rhs = calls[i].rhs

C2_Witness ==
  /\ pc = "done"
  /\ \E i \in 1..Len(calls) :
       calls[i].fn = "new_sub" /\ IsPtr(calls[i].lhs) /\ IsPtr(calls[i].rhs)

\* C3: an additive operator fails, with the fatal "invalid operands" and no node,
\* exactly for pointer + pointer and integer - pointer.
C3_InvalidOperands ==
  \A i \in 1..Len(calls) :
    /\ ~calls[i].ok <=>
         \/ calls[i].fn = "new_add" /\ IsPtr(calls[i].lhs) /\ IsPtr(calls[i].rhs)
         \/ calls[i].fn = "new_sub" /\ IsInt(calls[i].lhs) /\ IsPtr(calls[i].rhs)
    /\ ~calls[i].ok =>
         /\ calls[i].msg = "invalid operands"
         /\ calls[i].node = NilNode
         /\ i = Len(calls)
         /\ pc = "error"
         /\ err.msg = "invalid operands"
    /\ (IsPtr(calls[i].lhs) \/ IsInt(calls[i].lhs))
    /\ (IsPtr(calls[i].rhs) \/ IsInt(calls[i].rhs))

C3_Witness ==
  /\ pc = "error"
  /\ err.msg = "invalid operands"
  /\ calls # <<>>
  /\ calls[Len(calls)].fn = "new_sub"
  /\ IsInt(calls[Len(calls)].lhs)
  /\ IsPtr(calls[Len(calls)].rhs)


\* the most recently declared variable of a name: the greatest allocation number
MostRecent(name, lcls) ==
  LET ids == {lcls[i].id : i \in {j \in 1..Len(lcls) : lcls[j].name = name}}
  IN  IF ids = {} THEN NULL ELSE CHOOSE x \in ids : \A y \in ids : y <= x

IdentToks == {i \in 1..Len(toks) : toks[i].kind = "TK_IDENT"}

\* the declarators among the tokens from..(to - 1): each follows "int" or ","
Declarators(from, to) ==
  Cardinality({j \in from..(to - 1) :
                 toks[j].text \in {"int", ","} /\ toks[j + 1].text # ";"})

RECURSIVE VarNodes(_)
RECURSIVE VarNodesOf(_)
\* the ND_VAR nodes of a tree
VarNodes(n) ==
  IF n.kind = "NULL" THEN {}
  ELSE (IF n.kind = "ND_VAR" THEN {n} ELSE {})
       \cup VarNodes(n.lhs) \cup VarNodes(n.rhs) \cup VarNodes(n.cond)
       \cup VarNodes(n.then) \cup VarNodes(n.els) \cup VarNodes(n.init)
       \cup VarNodes(n.inc) \cup VarNodesOf(n.body)

VarNodesOf(ns) ==
  IF ns = <<>> THEN {} ELSE VarNodes(Head(ns)) \cup VarNodesOf(Tail(ns))

\* the variables allocated up to the k-th
FirstVars(lcls, k) == SelectSeq(lcls, LAMBDA v : v.id <= k)

C4_Lookup ==
  \A i \in IdentToks : find_var(i, locals) = MostRecent(toks[i].text, locals)

C4_Step ==
  \* the earlier entries are kept as they are, below the new ones
  /\ Len(locals') >= Len(locals)
  /\ SubSeq(locals', Len(locals') - Len(locals) + 1, Len(locals')) = locals
  \* one new entry per declarator parsed
  /\ pc' # "error" => Len(locals') = Len(locals) + Declarators(tok, tok')
  \* a reference binds to the most recent declaration that precedes it
  /\ (pc' # "error" /\ Len(body') > Len(body)) =>
       \A n \in VarNodes(body'[Len(body')]) :
         n.var = MostRecent(toks[n.tok].text,
                            FirstVars(locals', Len(locals) + Declarators(tok, n.tok)))

\* C4: a lookup by name returns the most recently declared variable of that name;
\* every declarator parsed adds one entry and leaves the earlier entries as they
\* are; a reference binds to the most recent declaration before it.
C4_Shadowing == []C4_Lookup /\ [][C4_Step]_vars

\* after `int a; int a; a;`: two entries named a, the reference bound to the second
C4_Witness ==
  /\ pc = "done"
  /\ Len(locals) = 2
  /\ locals[1].name = "a"
  /\ locals[2].name = "a"
  /\ Len(body) = 3
  /\ \E n \in VarNodes(body[3]) : n.var = locals[1].id /\ locals[1].id > locals[2].id

\* C5: primary on an identifier: not followed by "(" and not declared, it fails
\* with "undefined variable" at that identifier, no node, no new variable;
\* followed by "(" ")", it is a FunctionCall of that name, whatever is declared.
C5_Identifier ==
  /\ \A i \in IdentToks :
       LET r == primary(i, Ctx(locals, types, calls))
       IN  /\ (~equal(next(i), "(") /\ \A k \in 1..Len(locals) : locals[k].name # toks[i].text)
              => r = Err("undefined variable", "", i, Ctx(locals, types, calls))
           /\ (equal(next(i), "(") /\ equal(next(next(i)), ")"))
              => /\ r.ok
                 /\ r.node.kind = "ND_FUNCALL"
                 /\ r.node.funcname = toks[i].text
                 /\ r.node.var = NULL
                 /\ r.rest = i + 3
                 /\ r.ctx = Ctx(locals, types, calls)
  /\ (pc = "error" /\ err.msg = "undefined variable") =>
       /\ toks[err.loc].kind = "TK_IDENT"
       /\ ~equal(next(err.loc), "(")
       /\ \A k \in 1..Len(locals) : locals[k].name # toks[err.loc].text
       /\ prog = NilNode

\* the parse of `{ int a; b; }` has stopped at b
C5_Witness ==
  /\ pc = "error"
  /\ err.msg = "undefined variable"
  /\ toks[err.loc].text = "b"
  /\ Len(locals) = 1
  /\ Len(body) = 1

\* C6: parse returns a Function only when the token after the "}" that closes
\* the top-level block is the end marker.
C6_ExtraToken == pc = "done" => toks[tok].kind = "TK_EOF"

(***************************************************************************)
(* The calculator snapshots: src/main.c (numbers with + and -), and the    *)
(* two programs of src/unnamed/part_000: lines 367-628 (with * / and       *)
(* parentheses) and lines 1-366 (with unary operators and comparisons).    *)
(* All three read one argument, tokenize it and write assembly to stdout.  *)
(***************************************************************************)

\* the longest argument string
MaxLen == 4
\* the most operator nodes in a tree handed to gen_expr
MaxOps == 2

CalcSnapshots == {"addsub", "muldiv", "cmp"}

\* the byte that ends the argument
NUL == "<NUL>"

\* the bytes an argument is made of
Chars == {"1", " ", "+", "-", "*", "(", ")", "=", "a"}

isspace(c) == c \in {" "}
isdigit(c) == c \in {"0", "1", "2", "3", "4", "5", "6", "7", "8", "9"}
ispunct(c) == c \in {"+", "-", "*", "/", "(", ")", "=", "!", "<", ">"}

DigitVal ==
  ("0" :> 0) @@ ("1" :> 1) @@ ("2" :> 2) @@ ("3" :> 3) @@ ("4" :> 4) @@
  ("5" :> 5) @@ ("6" :> 6) @@ ("7" :> 7) @@ ("8" :> 8) @@ ("9" :> 9)

\* strtol(p, &p, 10): where the digits end, and their value
RECURSIVE strtol_end(_)
strtol_end(q) == IF isdigit(mem[q]) THEN strtol_end(q + 1) ELSE q

RECURSIVE strtol(_, _, _)
strtol(q, end, acc) ==
  IF q = end THEN acc ELSE strtol(q + 1, end, 10 * acc + DigitVal[mem[q]])

\* the len bytes at loc
RECURSIVE Text(_, _)
Text(loc, len) == IF len = 0 THEN "" ELSE mem[loc] \o Text(loc + 1, len - 1)

\* startswith(p, q) returns strncmp's result as a bool: true when the bytes
\* at p DIFFER from q
startswith(q0, q) == Text(q0, Len(q)) # q

\* read_punct(p): every operand of the || is true unless p starts with that
\* punctuator, and no p starts with all four
read_punct(q) ==
  IF startswith(q, "==") \/ startswith(q, "!=") \/ startswith(q, "<=")
       \/ startswith(q, ">=")
    THEN 2
    ELSE IF ispunct(mem[q]) THEN 1 ELSE 0

\* the length of the punctuator at q, by each snapshot's tokenize()
punct_len(q) ==
  CASE snapshot = "addsub" -> IF mem[q] = "+" \/ mem[q] = "-" THEN 1 ELSE 0
    [] snapshot = "muldiv" -> IF ispunct(mem[q]) THEN 1 ELSE 0
    [] snapshot = "cmp"    -> read_punct(q)

new_token(kind, start, end) ==
  [kind |-> kind, text |-> Text(start, end - start), val |-> 0,
   loc |-> start, len |-> end - start]

\* error_at / error_tok / the failing return of main: the message on stderr,
\* and exit status 1
Fail(msg, loc) ==
  /\ pc' = "error"
  /\ err' = [msg |-> msg, arg |-> "", loc |-> loc]

\* tokenize(): one iteration of the while loop
tokenize ==
  /\ pc = "tokenize"
  /\ p <= Len(mem)
  /\ mem[p] # NUL
  /\ IF isspace(mem[p])
       THEN /\ p' = p + 1
            /\ UNCHANGED <<toks, pc, err>>
       ELSE IF isdigit(mem[p])
         THEN /\ toks' = Append(toks, [new_token("TK_NUM", p, strtol_end(p))
                                 EXCEPT !.val = strtol(p, strtol_end(p), 0)])
              /\ p' = strtol_end(p)
              /\ UNCHANGED <<pc, err>>
         ELSE IF punct_len(p) > 0
           THEN /\ toks' = Append(toks, new_token("TK_PUNCT", p, p + punct_len(p)))
                /\ p' = p + punct_len(p)
                /\ UNCHANGED <<pc, err>>
           ELSE /\ Fail("invalid token", p)
                /\ UNCHANGED <<toks, p>>
  /\ UNCHANGED <<tok, snapshot, mem, root, out, depth, work, cpu, parseVars>>

\* tokenize(): the loop ends at the NUL; the list returned goes to main's tok
tokenize_eof ==
  /\ pc = "tokenize"
  /\ p <= Len(mem)
  /\ mem[p] = NUL
  /\ toks' = Append(toks, new_token("TK_EOF", p, p))
  /\ tok' = 1
  /\ pc' = "main"
  /\ UNCHANGED <<p, err, snapshot, mem, root, out, depth, work, cpu, parseVars>>

\* tokenize(): a two-byte punctuator that started at the last byte took the
\* NUL with it, and `while (*p)` reads past the end of the argument.  What
\* the run does from here is undefined: the model follows it no further and
\* says nothing about it.
tokenize_overrun ==
  /\ pc = "tokenize"
  /\ p > Len(mem)
  /\ pc' = "undefined"
  /\ UNCHANGED <<toks, tok, p, err, snapshot, mem, root, out, depth, work, cpu,
                 parseVars>>

\* a line of assembly; imm is the immediate of the `$` forms
Ins(op, imm) == [op |-> op, imm |-> imm]

Header == <<Ins(".globl main", 0), Ins("main:", 0)>>

get_number(t) ==
  IF toks[t].kind # "TK_NUM"
    THEN [ok |-> FALSE, val |-> 0, msg |-> "expected a number", loc |-> toks[t].loc]
    ELSE [ok |-> TRUE, val |-> toks[t].val, msg |-> "", loc |-> toks[t].loc]

(***************************************************************************)
(* src/main.c: main prints as it reads                                     *)
(***************************************************************************)

\* main(): the two header lines, then the first number
main_first ==
  /\ pc = "main"
  /\ snapshot = "addsub"
  /\ IF get_number(tok).ok
       THEN /\ out' = Header \o <<Ins("mov $, %rax", get_number(tok).val)>>
            /\ tok' = next(tok)
            /\ pc' = "loop"
            /\ UNCHANGED err
       ELSE /\ out' = Header
            /\ Fail(get_number(tok).msg, get_number(tok).loc)
            /\ UNCHANGED tok
  /\ UNCHANGED <<toks, p, snapshot, mem, root, depth, work, cpu, parseVars>>

\* main(): one iteration of the while loop
main_loop ==
  /\ pc = "loop"
  /\ toks[tok].kind # "TK_EOF"
  /\ IF equal(tok, "+") \/ equal(tok, "-")
       THEN IF get_number(next(tok)).ok
              THEN /\ out' = Append(out, Ins(IF equal(tok, "+") THEN "add $, %rax"
                                                                ELSE "sub $, %rax",
                                             get_number(next(tok)).val))
                   /\ tok' = next(next(tok))
                   /\ UNCHANGED <<pc, err>>
              ELSE /\ Fail(get_number(next(tok)).msg, get_number(next(tok)).loc)
                   /\ tok' = next(tok)
                   /\ UNCHANGED out
       ELSE /\ Fail("unexpected character", toks[tok].loc)
            /\ UNCHANGED <<tok, out>>
  /\ UNCHANGED <<toks, p, snapshot, mem, root, depth, work, cpu, parseVars>>

\* main(): the loop ends at TK_EOF
main_ret ==
  /\ pc = "loop"
  /\ toks[tok].kind = "TK_EOF"
  /\ out' = Append(out, Ins("ret", 0))
  /\ pc' = "done"
  /\ UNCHANGED <<toks, tok, p, err, snapshot, mem, root, depth, work, cpu,
                 parseVars>>

(***************************************************************************)
(* The expression parsers of src/unnamed/part_000                          *)
(***************************************************************************)

\* struct Node of the calculators
Node(kind, lhs, rhs, val) == [kind |-> kind, lhs |-> lhs, rhs |-> rhs, val |-> val]

calc_num(val) == Node("ND_NUM", NilNode, NilNode, val)
calc_unary(kind, e) == Node(kind, e, NilNode, 0)
calc_binary(kind, lhs, rhs) == Node(kind, lhs, rhs, 0)

\* what a parsing function hands back: the node and *rest, or error_tok
POk(n, rest) == [ok |-> TRUE, node |-> n, rest |-> rest, msg |-> "", loc |-> NULL]
PErr(msg, t) ==
  [ok |-> FALSE, node |-> NilNode, rest |-> t, msg |-> msg, loc |-> toks[t].loc]

\* skip(tok, ")")
skip(t, s) == IF equal(t, s) THEN POk(NilNode, next(t)) ELSE PErr("expected '" \o s, t)

RECURSIVE expr_md(_), expr_md_loop(_, _), mul_md(_), mul_md_loop(_, _),
          primary_md(_)

\* part_000:554  primary = num | "(" expr ")"
primary_md(t) ==
  IF equal(t, "(")
    THEN Bind(expr_md(next(t)), LAMBDA e :
           IF ~e.ok THEN e
           ELSE Bind(skip(e.rest, ")"), LAMBDA s :
                  IF ~s.ok THEN s ELSE POk(e.node, s.rest)))
    ELSE IF toks[t].kind = "TK_NUM"
      THEN POk(calc_num(get_number(t).val), next(t))
      ELSE PErr("expected an expression", t)

mul_md_loop(n, t) ==
  IF equal(t, "*") \/ equal(t, "/")
    THEN Bind(primary_md(next(t)), LAMBDA r :
           IF ~r.ok THEN r
           ELSE mul_md_loop(calc_binary(IF equal(t, "*") THEN "ND_MUL" ELSE "ND_DIV",
                                        n, r.node), r.rest))
    ELSE POk(n, t)

\* part_000:537  mul = primary ("*" primary | "/" primary)*
mul_md(t) ==
  Bind(primary_md(t), LAMBDA r : IF ~r.ok THEN r ELSE mul_md_loop(r.node, r.rest))

expr_md_loop(n, t) ==
  IF equal(t, "+") \/ equal(t, "-")
    THEN Bind(mul_md(next(t)), LAMBDA r :
           IF ~r.ok THEN r
           ELSE expr_md_loop(calc_binary(IF equal(t, "+") THEN "ND_ADD" ELSE "ND_SUB",
                                         n, r.node), r.rest))
    ELSE POk(n, t)

\* part_000:520  expr = mul ("+" mul | "-" mul)*
expr_md(t) ==
  Bind(mul_md(t), LAMBDA r : IF ~r.ok THEN r ELSE expr_md_loop(r.node, r.rest))

RECURSIVE expr_cmp(_, _), equality_cmp(_), equality_cmp_loop(_, _),
          relational_cmp(_), relational_cmp_loop(_, _), add_cmp(_),
          add_cmp_loop(_, _), mul_cmp(_), mul_cmp_loop(_, _), unary_cmp(_),
          primary_cmp(_)

\* part_000:271  primary = num | "(" expr ")".  expr is handed &tok but
\* leaves it alone, so skip() looks at the "(" again
primary_cmp(t) ==
  IF equal(t, "(")
    THEN Bind(expr_cmp(t, next(t)), LAMBDA e :
           IF ~e.ok THEN e
           ELSE Bind(skip(e.rest, ")"), LAMBDA s :
                  IF ~s.ok THEN s ELSE POk(e.node, s.rest)))
    ELSE IF toks[t].kind = "TK_NUM"
      THEN POk(calc_num(get_number(t).val), next(t))
      ELSE PErr("expected an expression", t)

\* part_000:260  unary = ("+" | "-")? unary | primary
unary_cmp(t) ==
  IF equal(t, "+") THEN unary_cmp(next(t))
  ELSE IF equal(t, "-")
    THEN Bind(unary_cmp(next(t)), LAMBDA r :
           IF ~r.ok THEN r ELSE POk(calc_unary("ND_NEG", r.node), r.rest))
    ELSE primary_cmp(t)

mul_cmp_loop(n, t) ==
  IF equal(t, "*") \/ equal(t, "/")
    THEN Bind(unary_cmp(next(t)), LAMBDA r :
           IF ~r.ok THEN r
           ELSE mul_cmp_loop(calc_binary(IF equal(t, "*") THEN "ND_MUL" ELSE "ND_DIV",
                                         n, r.node), r.rest))
    ELSE POk(n, t)

\* part_000:243  mul = unary ("*" unary | "/" unary)*
mul_cmp(t) ==
  Bind(unary_cmp(t), LAMBDA r : IF ~r.ok THEN r ELSE mul_cmp_loop(r.node, r.rest))

add_cmp_loop(n, t) ==
  IF equal(t, "+") \/ equal(t, "-")
    THEN Bind(mul_cmp(next(t)), LAMBDA r :
           IF ~r.ok THEN r
           ELSE add_cmp_loop(calc_binary(IF equal(t, "+") THEN "ND_ADD" ELSE "ND_SUB",
                                         n, r.node), r.rest))
    ELSE POk(n, t)

\* part_000:226  add = mul ("+" mul | "-" mul)*
add_cmp(t) ==
  Bind(mul_cmp(t), LAMBDA r : IF ~r.ok THEN r ELSE add_cmp_loop(r.node, r.rest))

relational_cmp_loop(n, t) ==
  IF equal(t, "<") \/ equal(t, "<=") \/ equal(t, ">") \/ equal(t, ">=")
    THEN Bind(add_cmp(next(t)), LAMBDA r :
           IF ~r.ok THEN r
           ELSE relational_cmp_loop(
                  CASE equal(t, "<")  -> calc_binary("ND_LT", n, r.node)
                    [] equal(t, "<=") -> calc_binary("ND_LE", n, r.node)
                    [] equal(t, ">")  -> calc_binary("ND_LT", r.node, n)
                    [] equal(t, ">=") -> calc_binary("ND_LE", r.node, n),
                  r.rest))
    ELSE POk(n, t)

\* part_000:201  relational = add ("<" add | "<=" add | ">" add | ">=" add)*
relational_cmp(t) ==
  Bind(add_cmp(t), LAMBDA r :
    IF ~r.ok THEN r ELSE relational_cmp_loop(r.node, r.rest))

equality_cmp_loop(n, t) ==
  IF equal(t, "==") \/ equal(t, "!=")
    THEN Bind(relational_cmp(next(t)), LAMBDA r :
           IF ~r.ok THEN r
           ELSE equality_cmp_loop(calc_binary(IF equal(t, "==") THEN "ND_EQ" ELSE "ND_NE",
                                              n, r.node), r.rest))
    ELSE POk(n, t)

\* part_000:184  equality = relational ("==" relational | "!=" relational)*
equality_cmp(t) ==
  Bind(relational_cmp(t), LAMBDA r :
    IF ~r.ok THEN r ELSE equality_cmp_loop(r.node, r.rest))

\* part_000:178  expr = equality.  `equality(&tok, tok)` moves expr's own
\* tok and *rest is never written: the caller's token stays where it was
expr_cmp(rest, t) ==
  Bind(equality_cmp(t), LAMBDA r : IF ~r.ok THEN r ELSE POk(r.node, rest))

(***************************************************************************)
(* main of the two part_000 programs: parse, then check, then print        *)
(***************************************************************************)

\* main(): Node *node = expr(&tok, tok)
main_parse ==
  /\ pc = "main"
  /\ snapshot \in {"muldiv", "cmp"}
  /\ \E r \in {IF snapshot = "muldiv" THEN expr_md(tok) ELSE expr_cmp(tok, tok)} :
       IF r.ok
         THEN /\ root' = r.node
              /\ tok' = r.rest
              /\ pc' = "parsed"
              /\ UNCHANGED err
         ELSE /\ Fail(r.msg, r.loc)
              /\ UNCHANGED <<root, tok>>
  /\ UNCHANGED <<toks, p, snapshot, mem, out, depth, work, cpu, parseVars>>

\* main(): the extra-token test, then the two header lines
main_check ==
  /\ pc = "parsed"
  /\ IF toks[tok].kind # "TK_EOF"
       THEN /\ Fail("extra token", toks[tok].loc)
            /\ UNCHANGED <<out, work>>
       ELSE /\ out' = Header
            /\ work' = <<[op |-> "gen_expr", node |-> root]>>
            /\ pc' = "gen"
            /\ UNCHANGED err
  /\ UNCHANGED <<toks, tok, p, snapshot, mem, root, depth, cpu, parseVars>>

(***************************************************************************)
(* Code generation.  gen_expr's recursion is kept in `work`: the calls and *)
(* prints the running invocations still have to make, next one first.      *)
(***************************************************************************)

Do(op) == [op |-> op, node |-> NilNode]

\* mutation: the pop is made before the push
gen_binary_pop_first(n) ==
  << [op |-> "gen_expr", node |-> n.rhs], Do("pop"),
     [op |-> "gen_expr", node |-> n.lhs], Do("push"),
     [op |-> "combine", node |-> n] >>

\* mutation: the left operand is generated first
gen_binary_lhs_first(n) ==
  << [op |-> "gen_expr", node |-> n.lhs], Do("push"),
     [op |-> "gen_expr", node |-> n.rhs], Do("pop"),
     [op |-> "combine", node |-> n] >>

\* gen_expr(): gen_expr(node->rhs); push(); gen_expr(node->lhs); pop("%rdi");
\* then the switch on node->kind
gen_binary(n) ==
  << [op |-> "gen_expr", node |-> n.rhs], Do("push"),
     [op |-> "gen_expr", node |-> n.lhs], Do("pop"),
     [op |-> "combine", node |-> n] >>

\* gen_expr(node): the part before the first recursive call
gen_expr ==
  /\ pc = "gen"
  /\ work # <<>>
  /\ Head(work).op = "gen_expr"
  /\ LET n == Head(work).node IN
       IF n = NilNode
         THEN \* node->kind of a null pointer
              /\ pc' = "crash"
              /\ UNCHANGED <<out, work>>
         ELSE IF n.kind = "ND_NUM"
           THEN /\ out' = Append(out, Ins("mov $, %rax", n.val))
                /\ work' = Tail(work)
                /\ UNCHANGED pc
           ELSE IF n.kind = "ND_NEG" /\ snapshot = "cmp"
             THEN /\ work' = << [op |-> "gen_expr", node |-> n.lhs], Do("neg") >>
                                \o Tail(work)
                  /\ UNCHANGED <<out, pc>>
             ELSE /\ work' = gen_binary(n) \o Tail(work)
                  /\ UNCHANGED <<out, pc>>
  /\ UNCHANGED <<toks, tok, p, err, snapshot, mem, root, depth, cpu, parseVars>>

push ==
  /\ pc = "gen"
  /\ work # <<>>
  /\ Head(work).op = "push"
  /\ out' = Append(out, Ins("push %rax", 0))
  /\ depth' = depth + 1
  /\ work' = Tail(work)
  /\ UNCHANGED <<toks, tok, p, pc, err, snapshot, mem, root, cpu, parseVars>>

pop ==
  /\ pc = "gen"
  /\ work # <<>>
  /\ Head(work).op = "pop"
  /\ out' = Append(out, Ins("pop %rdi", 0))
  /\ depth' = depth - 1
  /\ work' = Tail(work)
  /\ UNCHANGED <<toks, tok, p, pc, err, snapshot, mem, root, cpu, parseVars>>

\* the lines the second switch prints for a kind; none when no case matches
combine_lines(kind) ==
  CASE kind = "ND_ADD" -> <<Ins("add %rdi, %rax", 0)>>
    [] kind = "ND_SUB" -> <<Ins("sub %rdi, %rax", 0)>>
    [] kind = "ND_MUL" -> <<Ins("imul %rdi, %rax", 0)>>
    [] kind = "ND_DIV" -> <<Ins("cqo", 0), Ins("idiv %rdi", 0)>>
    [] kind \in {"ND_EQ", "ND_NE", "ND_LT", "ND_LE"} /\ snapshot = "cmp" ->
         << Ins("cmp %rdi, %rax", 0),
            Ins(CASE kind = "ND_EQ" -> "sete %al"
                  [] kind = "ND_NE" -> "setne %al"
                  [] kind = "ND_LT" -> "setl %al"
                  [] kind = "ND_LE" -> "setle %al", 0),
            Ins("movzb %al, %rax", 0) >>
    [] OTHER -> <<>>

\* gen_expr(): what an invocation does after its recursive calls: the neg
\* line, or the switch after pop("%rdi") with error("invalid expression")
\* when it falls through
gen_expr_tail ==
  /\ pc = "gen"
  /\ work # <<>>
  /\ Head(work).op \in {"neg", "combine"}
  /\ IF Head(work).op = "neg"
       THEN /\ out' = Append(out, Ins("neg %rax", 0))
            /\ work' = Tail(work)
            /\ UNCHANGED <<pc, err>>
       ELSE IF combine_lines(Head(work).node.kind) = <<>>
         THEN /\ Fail("invalid expression", NULL)
              /\ UNCHANGED <<out, work>>
         ELSE /\ out' = out \o combine_lines(Head(work).node.kind)
              /\ work' = Tail(work)
              /\ UNCHANGED <<pc, err>>
  /\ UNCHANGED <<toks, tok, p, snapshot, mem, root, depth, cpu, parseVars>>

\* main(): gen_expr has returned; printf("  ret\n"); assert(depth == 0)
main_ret_assert ==
  /\ pc = "gen"
  /\ work = <<>>
  /\ out' = Append(out, Ins("ret", 0))
  /\ pc' = IF depth = 0 THEN "done" ELSE "abort"
  /\ UNCHANGED <<toks, tok, p, err, snapshot, mem, root, depth, work, cpu,
                 parseVars>>

(***************************************************************************)
(* SpecCalc: a calculator run on an argument of at most MaxLen bytes       *)
(***************************************************************************)

RECURSIVE Strings(_)
Strings(n) ==
  IF n = 0 THEN {<<>>}
  ELSE Strings(n - 1) \cup {Append(s, c) : s \in Strings(n - 1), c \in Chars}

\* the parser's variables, which the calculators do not have
NoParser ==
  /\ locals = <<>>
  /\ types = <<TyInt>>
  /\ body = <<>>
  /\ prog = NilNode
  /\ calls = <<>>
  /\ argsLate = FALSE
  /\ pending = <<>>

InitCalc ==
  /\ snapshot \in CalcSnapshots
  /\ mem \in {Append(s, NUL) : s \in Strings(MaxLen)}
  /\ p = 1
  /\ toks = <<>>
  /\ tok = NULL
  /\ pc = "tokenize"
  /\ err = NoErr
  /\ root = NilNode
  /\ out = <<>>
  /\ depth = 0
  /\ work = <<>>
  /\ cpu = Idle
  /\ NoParser

NextCalc ==
  \/ tokenize \/ tokenize_eof \/ tokenize_overrun
  \/ main_first \/ main_loop \/ main_ret
  \/ main_parse \/ main_check
  \/ gen_expr \/ push \/ pop \/ gen_expr_tail \/ main_ret_assert

SpecCalc == InitCalc /\ [][NextCalc]_vars

(***************************************************************************)
(* SpecGen: gen_expr on a tree of at most MaxOps operators, and the code   *)
(* it wrote run on an abstract machine                                     *)
(***************************************************************************)

\* the values of the number leaves
LeafVals == {2, 3}

BinKinds(snap) ==
  IF snap = "cmp"
    THEN {"ND_ADD", "ND_SUB", "ND_MUL", "ND_DIV", "ND_EQ", "ND_NE", "ND_LT", "ND_LE"}
    ELSE {"ND_ADD", "ND_SUB", "ND_MUL", "ND_DIV"}

\* the trees over a snapshot's node kinds with exactly n operator nodes.
\* The mul/div parser builds each of them; the comparison parser builds the
\* ones that need no parentheses.
RECURSIVE TreesOf(_, _)
TreesOf(snap, n) ==
  IF n = 0 THEN {calc_num(v) : v \in LeafVals}
  ELSE (IF snap = "cmp" THEN {calc_unary("ND_NEG", e) : e \in TreesOf(snap, n - 1)}
                        ELSE {})
       \cup UNION { {calc_binary(k, l, r) : k \in BinKinds(snap),
                                           l \in TreesOf(snap, i),
                                           r \in TreesOf(snap, n - 1 - i)}
                    : i \in 0..(n - 1) }

\* 5+20-4
Example ==
  calc_binary("ND_SUB", calc_binary("ND_ADD", calc_num(5), calc_num(20)), calc_num(4))

Trees(snap) == UNION {TreesOf(snap, n) : n \in 0..MaxOps} \cup {Example}

\* the machine when main is entered: registers hold what the caller left,
\* the stack holds the return address
Entry == [rax |-> 77, rdi |-> 88, rdx |-> 99, flags |-> <<0, 0>>,
          stack |-> <<4096>>, trap |-> FALSE]

\* C's and idiv's quotient, rounded toward zero
TruncDiv(a, b) ==
  IF (a >= 0) = (b >= 0)
    THEN (IF a >= 0 THEN a ELSE -a) \div (IF b >= 0 THEN b ELSE -b)
    ELSE -((IF a >= 0 THEN a ELSE -a) \div (IF b >= 0 THEN b ELSE -b))

Flag(b) == IF b THEN 1 ELSE 0

\* setcc %al: the low byte of rax is replaced
SetAl(m, b) == [m EXCEPT !.rax = m.rax - (m.rax % 256) + Flag(b)]

\* one instruction of the x86-64 subset the calculators print.  Values stay
\* far inside 64 bits for the trees explored, so no wrap is modelled.
Step(ins, m) ==
  CASE ins.op = "mov $, %rax"     -> [m EXCEPT !.rax = ins.imm]
    [] ins.op = "push %rax"       -> [m EXCEPT !.stack = <<m.rax>> \o m.stack]
    [] ins.op = "pop %rdi"        ->
         IF m.stack = <<>> THEN [m EXCEPT !.trap = TRUE]
         ELSE [m EXCEPT !.rdi = Head(m.stack), !.stack = Tail(m.stack)]
    [] ins.op = "add %rdi, %rax"  -> [m EXCEPT !.rax = m.rax + m.rdi]
    [] ins.op = "sub %rdi, %rax"  -> [m EXCEPT !.rax = m.rax - m.rdi]
    [] ins.op = "imul %rdi, %rax" -> [m EXCEPT !.rax = m.rax * m.rdi]
    [] ins.op = "neg %rax"        -> [m EXCEPT !.rax = -m.rax]
    [] ins.op = "cqo"             -> [m EXCEPT !.rdx = IF m.rax < 0 THEN -1 ELSE 0]
    [] ins.op = "idiv %rdi"       ->
         \* rdx:rax / rdi; #DE on a zero divisor.  A dividend that is not
         \* the sign extension of rax is outside this machine.
         IF m.rdi = 0 \/ m.rdx # (IF m.rax < 0 THEN -1 ELSE 0)
           THEN [m EXCEPT !.trap = TRUE]
           ELSE [m EXCEPT !.rax = TruncDiv(m.rax, m.rdi),
                          !.rdx = m.rax - m.rdi * TruncDiv(m.rax, m.rdi)]
    [] ins.op = "cmp %rdi, %rax"  -> [m EXCEPT !.flags = <<m.rax, m.rdi>>]
    [] ins.op = "sete %al"        -> SetAl(m, m.flags[1] = m.flags[2])
    [] ins.op = "setne %al"       -> SetAl(m, m.flags[1] # m.flags[2])
    [] ins.op = "setl %al"        -> SetAl(m, m.flags[1] < m.flags[2])
    [] ins.op = "setle %al"       -> SetAl(m, m.flags[1] <= m.flags[2])
    [] ins.op = "movzb %al, %rax" -> [m EXCEPT !.rax = m.rax % 256]
    [] OTHER                      -> m   \* .globl main, main:

\* run the lines from i up to the ret
RECURSIVE Run(_, _, _)
Run(code, i, m) ==
  IF m.trap \/ i > Len(code) \/ code[i].op = "ret" THEN m
  ELSE Run(code, i + 1, Step(code[i], m))

\* the assembled output is called as main
Execute ==
  /\ pc = "done"
  /\ cpu' = Run(out, 1, Entry)
  /\ pc' = "ran"
  /\ UNCHANGED <<toks, tok, p, err, snapshot, mem, root, out, depth, work,
                 parseVars>>

InitGen ==
  /\ snapshot \in {"muldiv", "cmp"}
  /\ root \in Trees(snapshot)
  /\ mem = <<>>
  /\ p = NULL
  /\ toks = <<>>
  /\ tok = NULL
  /\ pc = "gen"
  /\ err = NoErr
  /\ out = Header
  /\ depth = 0
  /\ work = <<[op |-> "gen_expr", node |-> root]>>
  /\ cpu = Idle
  /\ NoParser

NextGen == gen_expr \/ push \/ pop \/ gen_expr_tail \/ main_ret_assert \/ Execute

SpecGen == InitGen /\ [][NextGen]_vars

(***************************************************************************)
(* Claims about the calculator snapshots                                   *)
(***************************************************************************)

\* C7: a failed compilation emits no assembly: whenever a run has ended with
\* an error (invalid token, expected a number, unexpected character, extra
\* token, ...), nothing has been written to stdout.
C7_NoPartialAssembly == pc = "error" => out = <<>>

\* the gen_expr steps an invocation on n takes, its recursive calls included
RECURSIVE GenSteps(_)
GenSteps(n) ==
  IF n.kind = "ND_NUM" THEN 1
  ELSE IF n.kind = "ND_NEG" THEN 2 + GenSteps(n.lhs)
  ELSE 4 + GenSteps(n.lhs) + GenSteps(n.rhs)

\* the steps code generation still has to take
RECURSIVE Remaining(_)
Remaining(w) ==
  IF w = <<>> THEN 0
  ELSE (IF Head(w).op = "gen_expr" THEN GenSteps(Head(w).node) ELSE 1)
       + Remaining(Tail(w))

Count(lines, op) == Cardinality({i \in DOMAIN lines : lines[i].op = op})

C8_Inv ==
  /\ depth >= 0
  /\ depth = Count(out, "push %rax") - Count(out, "pop %rdi")
  /\ pc \notin {"abort", "crash", "error"}
  /\ pc \in {"done", "ran"} => depth = 0 /\ work = <<>>

C8_Step ==
  pc = "gen" =>
    \/ pc' = "gen" /\ Remaining(work') = Remaining(work) - 1
    \/ pc' = "done" /\ work = <<>>

\* C8: for every tree handed to gen_expr, generation ends (each step leaves
\* one step less to take, and the last one is main's ret) with depth back at
\* zero; depth is never negative on the way, it is the number of push lines
\* written less the pop lines, and assert(depth == 0) does not fail.
C8_StackBalanced == []C8_Inv /\ [][C8_Step]_vars

\* C8 witness: generation has ended for `(a < (b / c))`, two pushes deep
C8_Witness ==
  /\ pc = "done"
  /\ snapshot = "cmp"
  /\ root.kind = "ND_LT"
  /\ root.rhs.kind = "ND_DIV"
  /\ depth = 0
  /\ Count(out, "push %rax") = 2

\* the value of a tree, operands in source order; no value when a divisor
\* is zero
RECURSIVE Eval(_)
Eval(n) ==
  CASE n.kind = "ND_NUM" -> n.val
    [] n.kind = "ND_NEG" -> -Eval(n.lhs)
    [] n.kind = "ND_ADD" -> Eval(n.lhs) + Eval(n.rhs)
    [] n.kind = "ND_SUB" -> Eval(n.lhs) - Eval(n.rhs)
    [] n.kind = "ND_MUL" -> Eval(n.lhs) * Eval(n.rhs)
    [] n.kind = "ND_DIV" -> TruncDiv(Eval(n.lhs), Eval(n.rhs))
    [] n.kind = "ND_EQ"  -> Flag(Eval(n.lhs) = Eval(n.rhs))
    [] n.kind = "ND_NE"  -> Flag(Eval(n.lhs) # Eval(n.rhs))
    [] n.kind = "ND_LT"  -> Flag(Eval(n.lhs) < Eval(n.rhs))
    [] n.kind = "ND_LE"  -> Flag(Eval(n.lhs) <= Eval(n.rhs))

RECURSIVE Defined(_)
Defined(n) ==
  CASE n.kind = "ND_NUM" -> TRUE
    [] n.kind = "ND_NEG" -> Defined(n.lhs)
    [] OTHER -> /\ Defined(n.lhs)
                /\ Defined(n.rhs)
                /\ n.kind = "ND_DIV" => Eval(n.rhs) # 0

\* C9: when the code written for a tree has run on the machine, and no
\* divisor in the tree is zero, rax holds the tree's value (lhs - rhs,
\* lhs / rhs rounded toward zero, comparisons as 0 or 1, unary minus as
\* negation), nothing trapped, and the stack is as it was on entry.
C9_Computes ==
  (pc = "ran" /\ Defined(root)) =>
    /\ ~cpu.trap
    /\ cpu.rax = Eval(root)
    /\ cpu.stack = Entry.stack

\* C9 witness: 5+20-4 has run and left 21
C9_Witness ==
  /\ pc = "ran"
  /\ root = Example
  /\ cpu.rax = 21
  /\ ~cpu.trap

\* what the punctuator rule is said to return at q
ClaimedPunct(q) ==
  IF Text(q, 2) \in {"==", "!=", "<=", ">="} THEN 2
  ELSE IF ispunct(mem[q]) THEN 1 ELSE 0

\* C10: in the comparison snapshot every punctuator token tokenize() makes
\* has the length the punctuator rule is said to return where the token
\* starts: 2 exactly for ==, !=, <=, >=, else 1 for a punctuation
\* character (and no token for any other character).
C10_PunctLength ==
  snapshot = "cmp" =>
    \A i \in DOMAIN toks :
      toks[i].kind = "TK_PUNCT" => toks[i].len = ClaimedPunct(toks[i].loc)

\* C15: in the part_000 calculators, when expr has returned to main, main's
\* tok is the first token after the tokens expr consumed, which is where the
\* rule below expr stopped; so tok is the end marker when the whole argument
\* is one expression.
C15_RestReported ==
  (pc = "parsed" /\ snapshot \in {"muldiv", "cmp"}) =>
    tok = (IF snapshot = "cmp" THEN equality_cmp(1).rest ELSE expr_md(1).rest)

(***************************************************************************)
(* More claims about the parser of src/parse.c                             *)
(***************************************************************************)

\* C16: a Type is not written after it is made: whatever has been declared,
\* the shared Integer object ty_int holds what it held at the start.
C16_TypeImmutable == types[ty_int] = TyInt

--------------------------------------------------------------------------
(* parse() of src/parse.c over expression statements: operator chains,
   operators with a missing operand, and comparisons written both ways *)

\* the longest operator chain: the number of operators of one statement
MaxChain == 2

BinaryOps == {"=", "==", "!=", "<", "<=", ">", ">=", "+", "-", "*", "/"}
PrefixOps == {"+", "-", "*", "&"}

\* the block starts by declaring the variables the statements use
DeclHead ==
  <<Punct("{"), Keyword("int"), Ident("a"), Punct(","), Ident("b"), Punct(","),
    Ident("c"), Punct(","), Ident("d"), Punct(";")>>

\* the position of the first token after the declaration
StmtAt == Len(DeclHead) + 1

BlockEnd == <<Punct("}"), Eof>>

OperandName(i) == <<"a", "b", "c", "d">>[(i % 4) + 1]

\* x0 op1 x1 ... opn xn
ChainOf(ops) ==
  [k \in 1..(2 * Len(ops) + 1) |->
     IF k % 2 = 1 THEN Ident(OperandName((k - 1) \div 2)) ELSE Punct(ops[k \div 2])]

OpSeqs == UNION { [1..m -> BinaryOps] : m \in 1..MaxChain }

ChainPrograms ==
  { DeclHead \o ChainOf(ops) \o <<Punct(";")>> \o BlockEnd : ops \in OpSeqs }

\* the tokens that cannot start an expression, the end marker among them
BadStarts ==
  { Punct(";"), Punct(")"), Punct("}"), Punct(","), Punct("/"), Punct("=="),
    Keyword("return"), Eof }

\* what stands before the operator: nothing (a prefix operator) or an operand
Operators ==
  { <<Punct(op)>> : op \in PrefixOps }
  \cup { x \o <<Punct(op)>> :
           x \in { <<Ident("a")>>, <<N1, Punct("*"), Ident("b")>>,
                   <<Punct("("), Ident("a"), Punct(")")>> },
           op \in BinaryOps }

\* where the expression stands
Contexts ==
  { <<>>, <<Keyword("return")>>, <<Punct("(")>>,
    <<Keyword("int"), Ident("e"), Punct("=")>> }

\* what follows the token that is found in the operand's place
Tails == { <<Ident("b"), Punct(";")>>, <<Punct("-"), Punct(";")>> }

MissingOperandPrograms ==
  { DeclHead \o c \o o \o <<bad>> \o (IF bad = Eof THEN <<>> ELSE tl \o BlockEnd) :
      c \in Contexts, o \in Operators, bad \in BadStarts, tl \in Tails }

\* the operands of the comparisons
CmpOperands ==
  { <<Ident("a")>>, <<Ident("b")>>, <<N1>>, <<Num("2", 2)>>,
    <<Ident("a"), Punct("+"), N1>>, <<Punct("-"), Num("2", 2)>>,
    <<Punct("("), Ident("a"), Punct("=="), Ident("b"), Punct(")")>> }

\* `x op y ; y op' x ;` for a comparison op and the comparison op' it is claimed
\* to be parsed as
Mirror(op) == IF op = ">" THEN "<" ELSE "<="

SwapProgram(x, op, y) ==
  DeclHead \o x \o <<Punct(op)>> \o y \o <<Punct(";")>>
           \o y \o <<Punct(Mirror(op))>> \o x \o <<Punct(";")>> \o BlockEnd

SwapPrograms ==
  { SwapProgram(x, op, y) : x \in CmpOperands, y \in CmpOperands, op \in {">", ">="} }

ExprPrograms == ChainPrograms \cup MissingOperandPrograms \cup SwapPrograms

InitExpr ==
  /\ toks \in ExprPrograms
  /\ tok = 1
  /\ locals = <<>>
  /\ types = <<TyInt>>
  /\ body = <<>>
  /\ prog = NilNode
  /\ pc = "parse"
  /\ err = NoErr
  /\ calls = <<>>
  /\ argsLate \in BOOLEAN
  /\ pending = <<>>
  /\ snapshot = "parse.c"
  /\ mem = <<>>
  /\ p = NULL
  /\ root = NilNode
  /\ out = <<>>
  /\ depth = 0
  /\ work = <<>>
  /\ cpu = Idle

SpecExpr == InitExpr /\ [][Next]_vars

--------------------------------------------------------------------------
(* Claims about expression statements *)

Min(S) == CHOOSE x \in S : \A y \in S : x <= y

\* the token can start an expression: a number, an identifier, "(" or a prefix
\* operator
CanStart(k) ==
  \/ toks[k].kind \in {"TK_NUM", "TK_IDENT"}
  \/ toks[k].kind = "TK_PUNCT" /\ toks[k].text \in (PrefixOps \cup {"("})

\* the token ends an operand
EndsOperand(k) ==
  \/ toks[k].kind \in {"TK_NUM", "TK_IDENT"}
  \/ toks[k] = Punct(")")

\* the token stands where an operator stands and is one: a binary operator
\* after an operand, a prefix operator elsewhere
IsOperator(k) ==
  /\ toks[k].kind = "TK_PUNCT"
  /\ toks[k].text \in (IF EndsOperand(k - 1) THEN BinaryOps ELSE PrefixOps)

\* the operators of the statements that are followed by a token that cannot
\* start an expression
MissingOperand ==
  { k \in StmtAt..(Len(toks) - 1) : IsOperator(k) /\ ~CanStart(k + 1) }

C11_Step ==
  (pc = "compound_stmt" /\ tok = StmtAt /\ MissingOperand # {}) =>
    /\ pc' = "error"
    /\ err' = [msg |-> "expected an expression", arg |-> "",
               loc |-> Min(MissingOperand) + 1]
    /\ prog' = NilNode

\* C11: when an operator is followed by a token that cannot start an expression,
\* the step that parses the statement stops with "expected an expression" located
\* at that following token, and parse() never returns a Function.
C11_MissingOperand ==
  /\ [](MissingOperand # {} => (pc # "done" /\ prog = NilNode))
  /\ [][C11_Step]_vars

\* `a + ;` has failed at the ";"
C11_Witness ==
  /\ pc = "error"
  /\ MissingOperand # {}
  /\ toks[StmtAt + 1] = Punct("+")
  /\ err.msg = "expected an expression"
  /\ err.loc = StmtAt + 2
  /\ toks[err.loc] = Punct(";")

--------------------------------------------------------------------------
(* Two compilations in one process: parse() of src/parse.c called twice.
   The file-scope `Obj *locals` (src/parse.c:21) and the Type heap are what
   the process keeps between the calls; parse() assigns neither. *)

\* the blocks of at most one statement
OneStmtPrograms ==
  { <<Punct("{")>> \o b \o <<Punct("}"), Eof>> : b \in Bodies(1) }

InitTwice ==
  /\ toks \in OneStmtPrograms
  /\ pending \in { <<b>> : b \in OneStmtPrograms }
  /\ tok = 1
  /\ locals = <<>>
  /\ types = <<TyInt>>
  /\ body = <<>>
  /\ prog = NilNode
  /\ pc = "parse"
  /\ err = NoErr
  /\ calls = <<>>
  /\ argsLate \in BOOLEAN
  /\ snapshot = "parse.c"
  /\ mem = <<>>
  /\ p = NULL
  /\ root = NilNode
  /\ out = <<>>
  /\ depth = 0
  /\ work = <<>>
  /\ cpu = Idle

\* parse() has returned and is called on the next token list: tok, prog and the
\* statement list of compound_stmt are the new call's own, the rest is the
\* process's
ParseAgain ==
  /\ snapshot = "parse.c"
  /\ pc = "done"
  /\ pending # <<>>
  /\ toks' = Head(pending)
  /\ pending' = Tail(pending)
  /\ tok' = 1
  /\ body' = <<>>
  /\ prog' = NilNode
  /\ pc' = "parse"
  /\ UNCHANGED <<err, locals, types, calls, argsLate, calcVars>>

NextTwice == Next \/ ParseAgain

SpecTwice == InitTwice /\ [][NextTwice]_vars

\* parse() on the present token list in a process that has parsed nothing
FreshParse ==
  IF ~equal(1, "{") THEN Err("expected", "{", 1, Ctx(<<>>, <<TyInt>>, <<>>))
  ELSE compound_stmt(2, Ctx(<<>>, <<TyInt>>, <<>>))

\* the names of a variable list, head first
NamesOf(lcls) == [i \in 1..Len(lcls) |-> lcls[i].name]

\* C12: the outcome of the second parse() of a process, success or the
\* diagnostic, and the variable list of the Function it returns, are those of
\* the same parse() in a process that parsed nothing before.
C12_Independent ==
  (pending = <<>> /\ pc \in {"done", "error"}) =>
    /\ (pc = "done") = FreshParse.ok
    /\ pc = "done" => NamesOf(prog.locals) = NamesOf(FreshParse.ctx.locals)
    /\ pc = "error" => (err.msg = FreshParse.msg /\ err.loc = FreshParse.loc)

--------------------------------------------------------------------------
(* More claims about expression statements (SpecExpr) *)

RECURSIVE Shape(_)
\* a tree without its token positions, types and Obj addresses: the kinds, the
\* variable names and the numbers
Shape(n) ==
  CASE n.kind = "ND_VAR"   -> <<"ND_VAR", toks[n.tok].text>>
    [] n.kind = "ND_NUM"   -> <<"ND_NUM", n.val>>
    [] n.rhs.kind = "NULL" -> <<n.kind, Shape(n.lhs)>>
    [] OTHER               -> <<n.kind, Shape(n.lhs), Shape(n.rhs)>>

\* what the statements `x op y ; y op' x ;` are claimed to have built
Swapped(x, op, y) ==
  LET kind == IF op = ">" THEN "ND_LT" ELSE "ND_LE"
      cx   == Ctx(locals, types, calls)
      xAt  == StmtAt
      yAt  == StmtAt + Len(x) + 1
      t1   == body[2].lhs
      t2   == body[3].lhs
  IN  /\ t1.kind = kind
      /\ Shape(t1.lhs) = Shape(add(yAt, cx).node)
      /\ Shape(t1.rhs) = Shape(add(xAt, cx).node)
      /\ Shape(t1) = Shape(t2)

\* C13: `x > y` builds LT(y, x) and `x >= y` builds LE(y, x), the tree that
\* `y < x` and `y <= x` build.
C13_GreaterSwapped ==
  \A x \in CmpOperands, y \in CmpOperands, op \in {">", ">="} :
    (pc = "done" /\ toks = SwapProgram(x, op, y)) => Swapped(x, op, y)

\* `a + 1 > b ; b < a + 1 ;` has been parsed
C13_Witness ==
  /\ pc = "done"
  /\ toks = SwapProgram(<<Ident("a"), Punct("+"), N1>>, ">", <<Ident("b")>>)
  /\ Len(body) = 3
  /\ body[2].lhs.kind = "ND_LT"
  /\ body[2].lhs.rhs.kind = "ND_ADD"

\* the precedence level of a binary operator, assignment lowest
Level(op) ==
  CASE op = "="                      -> 1
    [] op \in {"==", "!="}           -> 2
    [] op \in {"<", "<=", ">", ">="} -> 3
    [] op \in {"+", "-"}             -> 4
    [] op \in {"*", "/"}             -> 5

KindOf(op) ==
  CASE op = "="           -> "ND_ASSIGN"
    [] op = "=="          -> "ND_EQ"
    [] op = "!="          -> "ND_NE"
    [] op \in {"<", ">"}  -> "ND_LT"
    [] op \in {"<=", ">="} -> "ND_LE"
    [] op = "+"           -> "ND_ADD"
    [] op = "-"           -> "ND_SUB"
    [] op = "*"           -> "ND_MUL"
    [] op = "/"           -> "ND_DIV"

\* the i-th operand of a chain, as a shape
Leaf(i) == <<"ND_VAR", OperandName(i)>>

RECURSIVE LeftFold(_, _)
\* ((x0 op1 x1) op2 x2) ... up to the i-th operator, ">" and ">=" with their
\* operands exchanged
LeftFold(ops, i) ==
  IF i = 0 THEN Leaf(0)
  ELSE IF ops[i] \in {">", ">="} THEN <<KindOf(ops[i]), Leaf(i), LeftFold(ops, i - 1)>>
  ELSE <<KindOf(ops[i]), LeftFold(ops, i - 1), Leaf(i)>>

RECURSIVE RightFold(_, _)
\* xi op (x(i+1) op (...))
RightFold(ops, i) ==
  IF i = Len(ops) THEN Leaf(i)
  ELSE <<KindOf(ops[i + 1]), Leaf(i), RightFold(ops, i + 1)>>

SameLevel(ops) == \A i, j \in 1..Len(ops) : Level(ops[i]) = Level(ops[j])

ChainProgram(ops) == DeclHead \o ChainOf(ops) \o <<Punct(";")>> \o BlockEnd

\* the tokens at the operator positions of the statement, were it a chain
OpsOf ==
  [i \in 1..((Len(toks) - Len(DeclHead) - 4) \div 2) |-> toks[StmtAt + 2 * i - 1].text]

\* the program is one chain statement after the declaration
IsChain ==
  /\ Len(toks) >= Len(DeclHead) + 6
  /\ (Len(toks) - Len(DeclHead)) % 2 = 0
  /\ \A i \in 1..Len(OpsOf) : OpsOf[i] \in BinaryOps
  /\ toks = ChainProgram(OpsOf)

\* C14: a chain of assignments nests to the right, a = (b = c); a chain of
\* operators of any other one level nests to the left, (x op1 y) op2 z, with the
\* operands of ">" and ">=" exchanged; and every such chain parses.
C14_Associativity ==
  (IsChain /\ SameLevel(OpsOf)) =>
    /\ pc # "error"
    /\ pc = "done" =>
         Shape(body[2].lhs) =
           (IF Level(OpsOf[1]) = 1 THEN RightFold(OpsOf, 0)
            ELSE LeftFold(OpsOf, Len(OpsOf)))

\* `a = b = c ;` has been parsed into ASSIGN(a, ASSIGN(b, c))
C14_Witness ==
  /\ pc = "done"
  /\ toks = ChainProgram(<<"=", "=">>)
  /\ body[2].lhs.kind = "ND_ASSIGN"
  /\ body[2].lhs.lhs.kind = "ND_VAR"
  /\ body[2].lhs.rhs.kind = "ND_ASSIGN"

--------------------------------------------------------------------------
(* parse() of src/parse.c over programs cut off at every token and programs
   with one token replaced: every way a token list can go wrong *)

BasePrograms ==
  { <<Punct("{"), Keyword("int"), Ident("a"), Punct(","), Punct("*"), Ident("p"),
      Punct("="), Punct("&"), Ident("a"), Punct(";"),
      Keyword("if"), Punct("("), Ident("a"), Punct(")"),
      Keyword("return"), Ident("a"), Punct(";"),
      Keyword("else"), Ident("a"), Punct("="), N1, Punct(";"), Punct("}")>>,
    <<Punct("{"), Keyword("int"), Ident("a"), Punct(";"),
      Keyword("for"), Punct("("), Ident("a"), Punct("="), N1, Punct(";"),
      Ident("a"), Punct("<"), N1, Punct(";"),
      Ident("a"), Punct("="), Ident("a"), Punct("+"), N1, Punct(")"),
      Punct("{"), Ident("a"), Punct(";"), Punct("}"),
      Keyword("while"), Punct("("), Ident("a"), Punct(")"), Punct(";"), Punct("}")>>,
    <<Punct("{"), Keyword("int"), Ident("a"), Punct(";"),
      Keyword("for"), Punct("("), Punct(";"), Punct(";"), Punct(")"), Punct(";"),
      Ident("a"), Punct("="), Ident("f"), Punct("("), Punct(")"), Punct("+"),
      Punct("-"), N1, Punct("*"), Punct("("), Ident("a"), Punct(")"), Punct(";"),
      Punct("}")>>,
    <<Punct("{"), Punct("{"), Punct("}"), Keyword("int"), Ident("i"), Punct("="), N1,
      Punct(";"), Keyword("return"), N1, Punct("=="), N1, Punct("!="), N1,
      Punct("<="), Ident("i"), Punct("/"), N1, Punct(";"), Punct("}")>> }

\* the tokens put in another token's place
Replacements ==
  { Punct(";"), Punct(")"), Punct("}"), Punct("("), Punct("="), Punct("*"),
    Keyword("int"), Keyword("else"), Ident("a"), N1 }

\* every token list ends with the end marker, and holds it nowhere else
CutPrograms ==
  UNION { { SubSeq(b, 1, k) \o <<Eof>> : k \in 0..Len(b) } : b \in BasePrograms }

DamagedPrograms ==
  UNION { { [b EXCEPT ![k] = r] \o <<Eof>> : k \in 1..Len(b), r \in Replacements } :
          b \in BasePrograms }

PrefixPrograms == CutPrograms \cup DamagedPrograms

InitPrefix ==
  /\ toks \in PrefixPrograms
  /\ tok = 1
  /\ locals = <<>>
  /\ types = <<TyInt>>
  /\ body = <<>>
  /\ prog = NilNode
  /\ pc = "parse"
  /\ err = NoErr
  /\ calls = <<>>
  /\ argsLate \in BOOLEAN
  /\ pending = <<>>
  /\ snapshot = "parse.c"
  /\ mem = <<>>
  /\ p = NULL
  /\ root = NilNode
  /\ out = <<>>
  /\ depth = 0
  /\ work = <<>>
  /\ cpu = Idle

\* the process runs on until parse() returns or error_tok() exits
SpecPrefix == InitPrefix /\ [][Next]_vars /\ WF_vars(Next)

--------------------------------------------------------------------------
(* Claims about termination *)

Rules ==
  {"expr", "assign", "equality", "relational", "add", "mul", "unary", "primary",
   "declaration", "stmt", "expr_stmt", "compound_stmt"}

Halted == pc \in {"done", "error"}

\* a rule called at t either fails, with a diagnostic at a token, or returns a
\* rest that is a token after t
Advances(r, t) ==
  IF r.ok THEN r.rest \in (t + 1)..Len(toks)
  ELSE r.msg # "" /\ r.loc \in t..Len(toks)

\* every rule, from every token, with the variables declared so far; and the
\* loops of declaration and of the binary-operator rules entered at an operator
C17_RulesAdvance ==
  LET cx == Ctx(locals, types, calls) IN
  \A t \in 1..Len(toks) :
    /\ \A R \in Rules : Advances(call(R, t, cx), t)
    /\ Advances(decl_loop(t, 1, <<>>, cx), t)
    /\ toks[t] \in {Punct("=="), Punct("!=")} =>
         Advances(equality_loop(new_num(0, t), t, t, cx), t)
    /\ toks[t] \in {Punct("<"), Punct("<="), Punct(">"), Punct(">=")} =>
         Advances(relational_loop(new_num(0, t), t, t, cx), t)
    /\ toks[t] \in {Punct("+"), Punct("-")} =>
         Advances(add_loop(new_num(0, t), t, t, cx), t)
    /\ toks[t] \in {Punct("*"), Punct("/")} =>
         Advances(mul_loop(new_num(0, t), t, t, cx), t)

\* parse() has returned a Function, or has stopped with one diagnostic and none
C17_Outcome ==
  /\ tok \in 1..Len(toks)
  /\ pc = "done" => (prog # NilNode /\ err = NoErr)
  /\ pc = "error" => (prog = NilNode /\ err.msg # "" /\ err.loc \in 1..Len(toks))
  /\ err # NoErr => pc = "error"

\* a step is taken by a running process only, and moves the cursor forward or
\* stops at an error
C17_Step ==
  /\ ~Halted
  /\ \/ tok' > tok /\ err' = NoErr
     \/ pc' = "error" /\ tok' = tok

\* C17: on every token list that ends with the end marker parse() terminates,
\* with a Function or at its first error with one diagnostic; every iteration of
\* the loops of compound_stmt, declaration and the binary-operator rules moves at
\* least one token forward; no rule goes past the end marker.
C17_Terminates ==
  /\ [](C17_RulesAdvance /\ C17_Outcome)
  /\ [][C17_Step]_vars
  /\ <>Halted

\* a program cut off inside the body of its for loop has stopped at the end marker
C17_Witness ==
  /\ pc = "error"
  /\ toks[err.loc] = Eof
  /\ \E k \in 1..Len(toks) : toks[k] = Keyword("for")
  /\ body # <<>>

====
